---- MODULE Spec2Model ----
(***************************************************************************)
(* Go LINE bot: the rules engine (GoBoard), the SGF record replay and the  *)
(* live-play handlers of the Cloud Run service, as state machines.         *)
(*                                                                         *)
(* The board is scaled down from 19x19 to Size x Size; everything else is  *)
(* translated from the Python sources.                                     *)
(***************************************************************************)
EXTENDS Integers, Sequences, FiniteSets, TLC

VARIABLES
    board,      \* GoBoard.board : point -> 0 (empty) | 1 (black) | 2 (white)
    ko_point,   \* GoBoard.ko_point : a point, or None
    rejected,   \* history: the last placement refused on an empty point (ko or
                \*          suicide) since the last accepted move
    former,     \* history: the ko-point in force before the last accepted move,
                \*          the colour that was refused on it (0: none was), and
                \*          whether the last accepted move was that placement retried
                \*          one move after an earlier ko-point
    sgf_game,   \* the sgfmill record a handler holds: the moves of its main sequence
    current_turn, \* state["current_turn"] of the handler: 1 (black) | 2 (white)
    n_moves,    \* the times a record was rewritten so far (bounded by MaxNewMoves)
    session,    \* the chat's stored game_state.json: a dict, empty when there is no file
    sgf_store,  \* the chat's stored records: game id -> boards/{game_id}/game.sgf
    jobs,       \* the genmove jobs spawned and not yet called back
    now,        \* int(time.time())
    sent,       \* history: the bundles the last handler sent to the chat
    auth,       \* config["auth"]["token"] and the chat's auth.txt in the auth bucket
    review,     \* the review being worked on: the engine's move statistics and
                \*   what post-processing has made of them so far
    handlers,   \* the coordinate handlers running at once: where each one is and
                \*   what it holds in its local variables
    op          \* history: the last handler that ran, its inputs and how it ended
                \*          (before: the game an accepted move was played on)

replayVars == <<sgf_game, current_turn, n_moves>>
chatVars == <<session, sgf_store, jobs, now, sent, op, handlers, auth, review>>
idleVars == <<board, ko_point, rejected, former, sgf_game, current_turn, now, handlers,
              auth, review>>
raceIdle == <<board, ko_point, rejected, former, sgf_game, current_turn, now, auth,
              review>>
vars == <<board, ko_point, rejected, former, sgf_game, current_turn, n_moves,
          session, sgf_store, jobs, now, sent, op, handlers, auth, review>>

\* ------------------------------------------------------------------ bounds
Size == 3
MaxNewMoves == 2
MaxNow == 4
MaxMoves == 22

\* --------------------------------------------------------------- GoBoard
Points == (0 .. Size - 1) \X (0 .. Size - 1)
None == <<-1, -1>>
Colors == {1, 2}

col_labels == <<"A", "B", "C", "D", "E", "F", "G", "H", "J", "K",
                "L", "M", "N", "O", "P", "Q", "R", "S", "T">>

EmptyBoard == [p \in Points |-> 0]

\* A coordinate text such as "D4": its letter and its number.
parse_coordinates(text) ==
    IF ~(\E i \in 1 .. Len(col_labels) : col_labels[i] = text.col)
    THEN None
    ELSE LET col == (CHOOSE i \in 1 .. Len(col_labels) : col_labels[i] = text.col) - 1
             row == Size - text.num
         IN  IF row \in 0 .. Size - 1 /\ col \in 0 .. Size - 1
             THEN <<row, col>>
             ELSE None

neighbors(p) ==
    <<<<p[1] - 1, p[2]>>, <<p[1] + 1, p[2]>>, <<p[1], p[2] - 1>>, <<p[1], p[2] + 1>>>>

OnBoardNeighbors(p) == {neighbors(p)[i] : i \in 1 .. 4} \cap Points

\* The while-stack loop of get_group_and_liberties; the stack is popped in
\* an arbitrary order, which does not change the two sets it builds.
RECURSIVE flood(_, _, _, _, _)
flood(b, color, stack, visited_stones, liberties) ==
    IF stack = {}
    THEN [group |-> visited_stones, libs |-> Cardinality(liberties)]
    ELSE LET cur == CHOOSE p \in stack : TRUE
             nbs == OnBoardNeighbors(cur)
             fresh == {n \in nbs : b[n] = color /\ n \notin visited_stones}
         IN  flood(b, color, (stack \ {cur}) \cup fresh,
                   visited_stones \cup fresh,
                   liberties \cup {n \in nbs : b[n] = 0})

get_group_and_liberties(b, p) ==
    IF b[p] = 0
    THEN [group |-> {}, libs |-> 0]
    ELSE flood(b, b[p], {p}, {p}, {})

\* captured_stones of place_stone: one entry per neighbour of the placed
\* stone that holds the opponent and whose group has no liberty.
captured_groups(b, p, opponent) ==
    LET hit(i) == LET n == neighbors(p)[i]
                  IN  IF n \in Points /\ b[n] = opponent
                      THEN LET g == get_group_and_liberties(b, n)
                           IN  IF g.libs = 0 THEN g.group ELSE {}
                      ELSE {}
    IN  <<hit(1), hit(2), hit(3), hit(4)>>

\* variant: the captured stones stay on the board
remove_stones_Kept(b, stones) == b

remove_stones(b, stones) == [p \in Points |-> IF p \in stones THEN 0 ELSE b[p]]

\* variant: the ko check is missing
ko_forbids_Never(ko, coords) == FALSE

ko_forbids(ko, coords) == ko = coords

\* variant: a stone left with one liberty is refused as well
is_suicide_OffByOne(my_libs, n_captured) == my_libs <= 1 /\ n_captured = 0

is_suicide(my_libs, n_captured) == my_libs = 0 /\ n_captured = 0

\* variant: any single-stone capture sets the ko-point
new_ko_point_AnyCapture(n_captured, captured, my_libs) ==
    IF n_captured = 1
    THEN CHOOSE p \in captured : TRUE
    ELSE None

new_ko_point(n_captured, captured, my_libs) ==
    IF n_captured = 1 /\ my_libs = 1
    THEN CHOOSE p \in captured : TRUE
    ELSE None

place_stone(b, ko, text, color) ==
    LET coords == parse_coordinates(text)
        reject(m, bb) == [ok |-> FALSE, msg |-> m, board |-> bb, ko_point |-> ko]
    IN  IF coords = None THEN reject("format", b)
        ELSE IF b[coords] # 0 THEN reject("occupied", b)
        ELSE IF ko_forbids(ko, coords) THEN reject("ko", b)
        ELSE
        LET b1 == [b EXCEPT ![coords] = color]
            opponent == IF color = 1 THEN 2 ELSE 1
            groups == captured_groups(b1, coords, opponent)
            captured == UNION {groups[i] : i \in 1 .. 4}
            \* len(captured_stones): the list holds a group once per
            \* neighbour that reaches it
            n_captured == Cardinality(groups[1]) + Cardinality(groups[2])
                          + Cardinality(groups[3]) + Cardinality(groups[4])
            b2 == remove_stones(b1, captured)
            mine == get_group_and_liberties(b2, coords)
        IN  IF is_suicide(mine.libs, n_captured)
            THEN reject("suicide", [b2 EXCEPT ![coords] = 0])
            ELSE [ok |-> TRUE, msg |-> "placed", board |-> b2,
                  ko_point |-> new_ko_point(n_captured, captured, mine.libs)]

\* ------------------------------------------------- stored state, messages
T(col, num) == [col |-> col, num |-> num]
NoText == T("", 0)

\* game ids are game_{int(time.time())}; two games the chat played earlier
GameA == 1
GameB == 2
NoGame == 0

\* game_state.json as a dict; a missing file reads as None, which every reader
\* treats as the empty dict
NoState == [k \in {} |-> 0]
Has(state, k) == k \in DOMAIN state
Put(state, k, v) == [x \in DOMAIN state \cup {k} |-> IF x = k THEN v ELSE state[x]]
Get(state, k, default) == IF Has(state, k) THEN state[k] ELSE default

\* an Optional[str]: <<>> is None, <<text>> a string; a text is its characters
NoneStr == <<>>
Str(text) == <<text>>
truthy(opt) == opt # NoneStr /\ opt[1] # <<>>

RECURSIVE lstrip(_)
lstrip(text) == IF text # <<>> /\ Head(text) = " " THEN lstrip(Tail(text)) ELSE text
RECURSIVE rstrip(_)
rstrip(text) ==
    IF text # <<>> /\ text[Len(text)] = " "
    THEN rstrip(SubSeq(text, 1, Len(text) - 1))
    ELSE text
strip(text) == rstrip(lstrip(text))

\* no review is being worked on
NoReview == [stage |-> "none"]

\* AUTH_TOKEN is not set and the chat has no auth.txt
NoAuth == [token |-> NoneStr, stored |-> NoneStr]

\* load_auth_token: the stripped text of auth.txt, None when there is no file
\* or the read raised
load_auth_token(stored, read_ok) ==
    IF ~read_ok \/ stored = NoneStr THEN NoneStr ELSE Str(strip(stored[1]))

\* variant: any stored token passes
check_auth_Present(stored, read_ok, secret_token) ==
    load_auth_token(stored, read_ok) # NoneStr

check_auth(stored, read_ok, secret_token) ==
    LET stored_token == load_auth_token(stored, read_ok)
    IN  stored_token # NoneStr /\ stored_token[1] = secret_token

\* the gate of `review` and `vs ai`: open when no AUTH_TOKEN is configured
authenticated(a, read_ok) ==
    ~truthy(a.token) \/ check_auth(a.stored, read_ok, a.token[1])

NoUrl == [kind |-> "none", game_id |-> NoGame, t |-> 0]
get_public_url(kind, game_id, t) == [kind |-> kind, game_id |-> game_id, t |-> t]
TextMessage(tag, why, arg) ==
    [type |-> "text", tag |-> tag, why |-> why, arg |-> arg, url |-> NoUrl]
ImageMessage(url) ==
    [type |-> "image", tag |-> "", why |-> "", arg |-> NoText, url |-> url]

NoOp == [name |-> "none", outcome |-> "", token |-> 0, tok_ok |-> TRUE,
         image |-> NoUrl, arg |-> NoText, game_id |-> NoGame, spawned |-> FALSE,
         before |-> <<>>, http |-> 0, reads |-> [state |-> "ok", sgf |-> "ok"],
         write |-> "ok"]

\* the chat is not part of the engine and replay machines
NoChat ==
    /\ session = NoState
    /\ sgf_store = [g \in {} |-> <<>>]
    /\ jobs = {}
    /\ now = 0
    /\ sent = <<>>
    /\ op = NoOp
    /\ handlers = <<>>
    /\ auth = NoAuth
    /\ review = NoReview

\* ------------------------------------------------------- engine machine
Letters == {col_labels[i] : i \in 1 .. Size}
Texts == [col : Letters, num : 1 .. Size]
         \cup {[col |-> "I", num |-> 1],
               [col |-> "A", num |-> 0],
               [col |-> "A", num |-> Size + 1],
               [col |-> col_labels[Size + 1], num |-> 1]}

NoCall == [pt |-> None, color |-> 0, msg |-> "none"]

InitEngine ==
    /\ board = EmptyBoard
    /\ ko_point = None
    /\ rejected = NoCall
    /\ former = [pt |-> None, color |-> 0, retaken |-> FALSE]
    /\ sgf_game = <<>>
    /\ current_turn = 1
    /\ n_moves = 0
    /\ NoChat

PlaceStone(text, color) ==
    LET res == place_stone(board, ko_point, text, color)
    IN  /\ board' = res.board
        /\ ko_point' = res.ko_point
        /\ rejected' = IF res.ok THEN NoCall
                       ELSE IF res.msg \in {"ko", "suicide"}
                       THEN [pt |-> parse_coordinates(text), color |-> color, msg |-> res.msg]
                       ELSE rejected
        /\ former' = IF ~res.ok THEN former
                     ELSE [pt |-> ko_point,
                           color |-> IF rejected.msg = "ko" THEN rejected.color ELSE 0,
                           retaken |-> /\ former.pt # None
                                       /\ former.pt = parse_coordinates(text)
                                       /\ former.color = color]
        /\ UNCHANGED replayVars
        /\ UNCHANGED chatVars

NextEngine == \E text \in Texts, color \in Colors : PlaceStone(text, color)

SpecEngine == InitEngine /\ [][NextEngine]_vars

\* ------------------------------------------------------ the game record
\* A record is the main sequence of an sgfmill game: one node per move, with
\* the colour code and the SGF coordinates (sgf_row 0 is the bottom row).
Flip(color) == IF color = 1 THEN 2 ELSE 1
color_code(color) == IF color = 1 THEN "b" ELSE "w"

sgf_row(row) == (Size - 1) - row

\* the part of a move handler that plays a stone and records it
apply_move(state, text, color) ==
    LET coords == parse_coordinates(text)
        node == [color |-> color_code(color), row |-> sgf_row(coords[1]), col |-> coords[2]]
        after(res) ==
            IF ~res.ok
            THEN [ok |-> FALSE, msg |-> res.msg, board |-> res.board, ko_point |-> res.ko_point,
                  sgf_game |-> state.sgf_game, current_turn |-> state.current_turn]
            ELSE [ok |-> TRUE, msg |-> res.msg, board |-> res.board, ko_point |-> res.ko_point,
                  sgf_game |-> Append(state.sgf_game, node), current_turn |-> Flip(color)]
    IN  CHOOSE new_state \in {after(res) :
                              res \in {place_stone(state.board, state.ko_point, text, color)}} :
            TRUE

NewGame == [ok |-> TRUE, msg |-> "new", board |-> EmptyBoard, ko_point |-> None,
            sgf_game |-> <<>>, current_turn |-> 1]

restore_ko_point_Never(captured_stones, my_libs) == None
restore_ko_point(captured_stones, my_libs) ==
    IF Cardinality(captured_stones) = 1 /\ my_libs = 1
    THEN CHOOSE p \in captured_stones : TRUE
    ELSE None

\* one pass of the loop of restore_game_from_sgf_object
restore_move(game, node) ==
    LET r == (Size - 1) - node.row
        c == node.col
        stone_val == IF node.color = "b" THEN 1 ELSE 2
        b1 == [game.board EXCEPT ![<<r, c>>] = stone_val]
        opponent == IF stone_val = 1 THEN 2 ELSE 1
        dead(n) == IF n \in Points /\ b1[n] = opponent
                   THEN LET g == get_group_and_liberties(b1, n)
                        IN  IF g.libs = 0 THEN g.group ELSE {}
                   ELSE {}
        after(captured_stones) ==
            LET b2 == [p \in Points |-> IF p \in captured_stones THEN 0 ELSE b1[p]]
                my_libs == get_group_and_liberties(b2, <<r, c>>).libs
            IN  [board |-> b2,
                 ko_point |-> restore_ko_point(captured_stones, my_libs),
                 current_turn |-> IF stone_val = 1 THEN 2 ELSE 1]
    IN  CHOOSE restored \in {after(captured_stones) :
                             captured_stones \in {UNION {dead(neighbors(<<r, c>>)[i]) : i \in 1 .. 4}}} :
            TRUE

RECURSIVE restore_loop(_, _, _)
restore_loop(game, sequence, i) ==
    IF i > Len(sequence) THEN game
    ELSE CHOOSE restored \in {restore_loop(next, sequence, i + 1) :
                              next \in {restore_move(game, sequence[i])}} : TRUE

restore_game_from_sgf_object(record) ==
    restore_loop([board |-> EmptyBoard, ko_point |-> None, current_turn |-> 1], record, 1)

\* ------------------------------------------------------- replay machine
\* Games already played when the machine starts, as the texts their players
\* typed, black first: a ko fight about to start, a corner where the next but
\* one stone is suicide, and a two-stone group about to be captured.
KoSeed == <<T("A", 2), T("A", 1), T("A", 3), T("C", 1), T("C", 3), T("B", 2)>>
SuicideSeed == <<T("B", 1), T("C", 3)>>
CaptureSeed == <<T("A", 2), T("A", 1), T("B", 2), T("B", 1)>>
Seeds == {<<>>, KoSeed, SuicideSeed, CaptureSeed}

RECURSIVE played(_, _, _)
played(state, texts, i) ==
    IF i > Len(texts) THEN state
    ELSE CHOOSE last \in {played(next, texts, i + 1) :
                          next \in {apply_move(state, texts[i], state.current_turn)}} : TRUE

SeedGame(seed) == played(NewGame, seed, 1)

InitReplay ==
    /\ NoChat
    /\ rejected = NoCall
    /\ former = [pt |-> None, color |-> 0, retaken |-> FALSE]
    /\ n_moves = 0
    /\ \E seed \in Seeds : \E g \in {SeedGame(seed)} :
              /\ Len(g.sgf_game) = Len(seed)
              /\ board = g.board
              /\ ko_point = g.ko_point
              /\ sgf_game = g.sgf_game
              /\ current_turn = g.current_turn

\* place_stone on the live board, the record and the turn kept as the move
\* handlers keep them
RecordMove(text, color) ==
    \E res \in {apply_move([board |-> board, ko_point |-> ko_point,
                            sgf_game |-> sgf_game, current_turn |-> current_turn],
                           text, color)} :
        /\ res.ok => n_moves < MaxNewMoves
        /\ board' = res.board
        /\ ko_point' = res.ko_point
        /\ sgf_game' = res.sgf_game
        /\ current_turn' = res.current_turn
        /\ n_moves' = IF res.ok THEN n_moves + 1 ELSE n_moves
        /\ UNCHANGED <<rejected, former>>
        /\ UNCHANGED chatVars

NextReplay == \E text \in Texts, color \in Colors : RecordMove(text, color)

SpecReplay == InitReplay /\ [][NextReplay]_vars

\* ------------------------------------------------ a ko of two stones
\* A game in which white is about to take one stone with a group of two that
\* is left with one liberty, beside the games of the replay machine.
GroupKoSeed == <<T("A", 1), T("A", 2), T("B", 2), T("C", 1), T("C", 2)>>

InitKo ==
    /\ NoChat
    /\ rejected = NoCall
    /\ former = [pt |-> None, color |-> 0, retaken |-> FALSE]
    /\ n_moves = 0
    /\ \E seed \in Seeds \cup {GroupKoSeed} : \E g \in {SeedGame(seed)} :
              /\ Len(g.sgf_game) = Len(seed)
              /\ board = g.board
              /\ ko_point = g.ko_point
              /\ sgf_game = g.sgf_game
              /\ current_turn = g.current_turn

SpecKo == InitKo /\ [][NextReplay]_vars

\* ---------------------------------------------------------- chat helpers
\* variant: the upload is appended to the object already stored
StorePut_Append(store, game_id, record) ==
    [g \in DOMAIN store \cup {game_id} |->
        IF g # game_id THEN store[g]
        ELSE IF g \in DOMAIN store THEN store[g] \o record ELSE record]

\* upload_buffer: the object is replaced as a whole
StorePut(store, game_id, record) ==
    [g \in DOMAIN store \cup {game_id} |-> IF g = game_id THEN record ELSE store[g]]

get_game_id_Bare(state, t) ==
    IF Has(state, "game_id")
    THEN [game_id |-> state["game_id"], session |-> state]
    ELSE [game_id |-> t, session |-> Put(Put(NoState, "game_id", t), "current_turn", 1)]
get_game_id(state, t) ==
    IF Has(state, "game_id")
    THEN [game_id |-> state["game_id"], session |-> state]
    ELSE [game_id |-> t, session |-> Put(Put(state, "game_id", t), "current_turn", 1)]

set_vs_ai_mode(state, flag) == Put(state, "vs_ai_mode", flag)
is_vs_ai_mode_Never(state) == FALSE
is_vs_ai_mode(state) == Get(state, "vs_ai_mode", FALSE)

restored_state(record) ==
    CHOOSE state \in {[ok |-> TRUE, msg |-> "restored", board |-> g.board,
                       ko_point |-> g.ko_point, sgf_game |-> record,
                       current_turn |-> g.current_turn] :
                          g \in {restore_game_from_sgf_object(record)}} : TRUE

\* the state a handler works on, and the session file as get_game_id left it
get_game_state(state_meta, store, t) ==
    IF Has(state_meta, "game_id") /\ state_meta["game_id"] \in DOMAIN store
    THEN [state |-> restored_state(store[state_meta["game_id"]]), session |-> state_meta]
    ELSE [state |-> NewGame, session |-> get_game_id(state_meta, t).session]

merged_state_Overwrite(existing_state, game_id, turn) ==
    Put(Put(NoState, "game_id", game_id), "current_turn", turn)
merged_state(existing_state, game_id, turn) ==
    Put(Put(existing_state, "game_id", game_id), "current_turn", turn)

save_game_sgf(state_meta, store, state, t) ==
    LET id == get_game_id(state_meta, t)
    IN  [game_id |-> id.game_id,
         store |-> StorePut(store, id.game_id, state.sgf_game),
         session |-> merged_state(id.session, id.game_id, state.current_turn)]

loaded_vs_ai_mode_Off(existing_state) == FALSE
loaded_vs_ai_mode(existing_state) == Get(existing_state, "vs_ai_mode", FALSE)

reply_message(reply_token, messages) ==
    [via |-> "reply", token |-> reply_token, messages |-> messages]
push_message(messages) == [via |-> "push", token |-> 0, messages |-> messages]

send_message_ReplyOnly(reply_token, tok_ok, messages) ==
    reply_message(reply_token, messages)
send_message(reply_token, tok_ok, messages) ==
    IF reply_token # 0 /\ tok_ok
    THEN reply_message(reply_token, messages)
    ELSE push_message(messages)

\* POST /webhook: 200 "OK", or 500 when an exception left a handler
webhook(raised) == IF raised THEN 500 ELSE 200

\* the outcomes of the store reads of get_game_state: load_state_from_gcs
\* ("error": it logs the exception and returns None), then file_exists and
\* download_file of the record ("exists_error", "download_error": they raise)
NoFaults == [state |-> "ok", sgf |-> "ok"]
Reads == [state : {"ok", "error"}, sgf : {"ok", "exists_error", "download_error"}]

\* get_game_state under these outcomes; a failed read is transient: the
\* reads that follow it (get_game_id, save_game_sgf) succeed
read_game_state(reads, state_meta, store, t) ==
    LET seen == IF reads.state = "ok" THEN state_meta ELSE NoState
        found == get_game_state(state_meta, store, t)
    IN  IF Has(seen, "game_id") /\ reads.sgf = "exists_error"
        THEN [raised |-> TRUE, state |-> NewGame, session |-> state_meta]
        ELSE IF Has(seen, "game_id") /\ reads.sgf = "ok"
        THEN [raised |-> FALSE, state |-> found.state, session |-> found.session]
        ELSE [raised |-> FALSE, state |-> NewGame,
              session |-> get_game_id(state_meta, t).session]

\* the reply token of the event being handled: one no pending job holds
FreshToken == CHOOSE t \in 1 .. MaxNewMoves + 1 : \A j \in jobs : j.reply_token # t

Op(name, outcome, token, arg) ==
    [name |-> name, outcome |-> outcome, token |-> token, tok_ok |-> TRUE,
     image |-> NoUrl, arg |-> arg, game_id |-> NoGame, spawned |-> FALSE,
     before |-> <<>>, http |-> webhook(FALSE), reads |-> NoFaults, write |-> "ok"]

\* the handler ran with a reply token that was valid (tok_ok) or had expired:
\* every reply it attempts raises, its except clause replies again, and the
\* exception reaches the webhook
Ran(o, tok_ok) == [o EXCEPT !.tok_ok = tok_ok, !.http = webhook(~tok_ok)]

\* line_bot_api.reply_message called by a handler
replied(reply_token, tok_ok, messages) ==
    IF tok_ok THEN <<reply_message(reply_token, messages)>> ELSE <<>>

\* -------------------------------------------------------- chat handlers
\* Each handler with the environment's part as parameters: whether the reply
\* token is still valid and, for a coordinate, how the store reads end.

\* a coordinate typed in the chat; spawned: the genmove function is configured
\* and spawning it raised nothing; tok_ok: the reply token is still valid;
\* reads: the outcomes of the store reads of get_game_state
HandleBoardMove(coord_text, spawned, tok_ok, reads) ==
    /\ UNCHANGED idleVars
    /\ \E reply_token \in {FreshToken} :
       \E loaded \in {read_game_state(reads, session, sgf_store, now)} :
       \E state \in {apply_move(loaded.state, coord_text, loaded.state.current_turn)} :
       \E saved \in {save_game_sgf(loaded.session, sgf_store, state, now)} :
       LET image_url == get_public_url("board", saved.game_id, now)
           job == [reply_token |-> reply_token,
                   user_board_image_url |-> image_url,
                   current_turn |-> state.current_turn,
                   game_id |-> saved.game_id,
                   record |-> state.sgf_game]
           ran(outcome) == [Ran(Op("move", outcome, reply_token, coord_text), tok_ok)
                               EXCEPT !.spawned = spawned, !.reads = reads,
                                      !.before = <<loaded.state>>]
       IN  IF loaded.raised
           THEN /\ sent' = replied(reply_token, tok_ok,
                                   <<TextMessage("error", reads.sgf, coord_text)>>)
                /\ op' = ran("error")
                /\ UNCHANGED <<session, sgf_store, jobs, n_moves>>
           ELSE IF ~state.ok
           THEN /\ session' = loaded.session
                /\ sent' = replied(reply_token, tok_ok,
                                   <<TextMessage("hint", state.msg, coord_text)>>)
                /\ op' = [ran("rejected") EXCEPT !.spawned = FALSE, !.before = <<>>]
                /\ UNCHANGED <<sgf_store, jobs, n_moves>>
           ELSE /\ n_moves < MaxNewMoves
                /\ n_moves' = n_moves + 1
                /\ session' = saved.session
                /\ sgf_store' = saved.store
                /\ IF is_vs_ai_mode(saved.session) /\ spawned
                   THEN /\ jobs' = jobs \cup {job}
                        /\ sent' = <<>>
                        /\ op' = [ran("dispatched") EXCEPT !.http = webhook(FALSE)]
                   ELSE /\ jobs' = jobs
                        /\ sent' = replied(reply_token, tok_ok, <<ImageMessage(image_url)>>)
                        /\ op' = ran("replied")

\* variant: the first move is deleted instead of the last
delete_last_node_First(sgf) == Tail(sgf)

\* last_node.delete() on a record with at least one move
delete_last_node(sgf) == SubSeq(sgf, 1, Len(sgf) - 1)

\* "undo"
HandleUndoMove(tok_ok) ==
    /\ UNCHANGED idleVars
    /\ \E reply_token \in {FreshToken} :
       \E loaded \in {get_game_state(session, sgf_store, now)} :
       \E sgf \in {loaded.state.sgf_game} :
       \E state \in {restored_state(IF Len(sgf) = 0 THEN sgf ELSE delete_last_node(sgf))} :
       \E saved \in {save_game_sgf(loaded.session, sgf_store, state, now)} :
       LET image_url == get_public_url("board_undo", saved.game_id, now)
       IN  IF Len(sgf) = 0
           THEN /\ session' = loaded.session
                /\ sent' = replied(reply_token, tok_ok, <<TextMessage("hint", "root", NoText)>>)
                /\ op' = Ran(Op("undo", "root", reply_token, NoText), tok_ok)
                /\ UNCHANGED <<sgf_store, jobs, n_moves>>
           ELSE /\ n_moves < MaxNewMoves
                /\ n_moves' = n_moves + 1
                /\ session' = saved.session
                /\ sgf_store' = saved.store
                /\ sent' = replied(reply_token, tok_ok,
                                   <<TextMessage("undone", "", NoText),
                                     ImageMessage(image_url)>>)
                /\ op' = Ran(Op("undo", "undone", reply_token, NoText), tok_ok)
                /\ UNCHANGED jobs

\* "load" (game_id = NoGame) and "load game_<id>"
HandleLoadGameById(asked, tok_ok) ==
    LET reply_token == FreshToken
        game_id == IF asked = NoGame THEN Get(session, "game_id", NoGame) ELSE asked
        restored == restore_game_from_sgf_object(sgf_store[game_id])
        image_url == get_public_url("board_restored", game_id, now)
        say(outcome, messages) ==
            /\ sent' = replied(reply_token, tok_ok, messages)
            /\ op' = [Ran(Op("load", outcome, reply_token, NoText), tok_ok)
                         EXCEPT !.game_id = asked]
    IN  /\ UNCHANGED idleVars
        /\ UNCHANGED <<sgf_store, jobs, n_moves>>
        /\ IF asked = NoGame /\ ~Has(session, "game_id")
           THEN /\ say("no_save", <<TextMessage("no_save", "", NoText)>>)
                /\ session' = session
           ELSE IF game_id \notin DOMAIN sgf_store
           THEN /\ say("not_found", <<TextMessage("not_found", "", NoText)>>)
                /\ session' = session
           ELSE /\ say("loaded", <<TextMessage("loaded", "", NoText), ImageMessage(image_url)>>)
                /\ session' = Put(Put(Put(NoState, "game_id", game_id),
                                      "current_turn", restored.current_turn),
                                  "vs_ai_mode", loaded_vs_ai_mode(session))

\* "vs ai" (behind the auth gate) and "vs free"; auth_read: the read of
\* auth.txt raised nothing
HandleVsAi(flag, tok_ok, auth_read) ==
    LET reply_token == FreshToken
        name == IF flag THEN "vs_ai" ELSE "vs_free"
    IN  /\ UNCHANGED idleVars
        /\ IF flag /\ ~authenticated(auth, auth_read)
           THEN /\ session' = session
                /\ sent' = replied(reply_token, tok_ok,
                                   <<TextMessage("need_auth", name, NoText)>>)
                /\ op' = Ran(Op(name, "need_auth", reply_token, NoText), tok_ok)
           ELSE /\ session' = set_vs_ai_mode(session, flag)
                /\ sent' = replied(reply_token, tok_ok, <<TextMessage(name, "", NoText)>>)
                /\ op' = Ran(Op(name, "done", reply_token, NoText), tok_ok)
        /\ UNCHANGED <<sgf_store, jobs, n_moves>>

\* ------------------------------------------------ genmove and its callback
\* what KataGo answers to genmove: a point, pass, resign, or nothing usable
Pass == T("pass", 0)
Resign == T("resign", 0)

run_katago_gtp_next_move(answer) ==
    IF answer = NoText THEN [success |-> FALSE, move |-> NoText]
    ELSE IF answer \in {Pass, Resign} THEN [success |-> FALSE, move |-> NoText]
    ELSE [success |-> TRUE, move |-> answer]

\* the body the worker posts to /callback/get_ai_next_move
get_ai_next_move(job, answer) ==
    LET result == run_katago_gtp_next_move(answer)
        failed == [status |-> "failed", move |-> NoText, current_turn |-> 0,
                   reply_token |-> job.reply_token,
                   user_board_image_url |-> job.user_board_image_url]
    IN  IF ~result.success THEN failed
        ELSE IF result.move = NoText THEN failed
        ELSE [status |-> "success", move |-> result.move,
              current_turn |-> job.current_turn,
              reply_token |-> job.reply_token,
              user_board_image_url |-> job.user_board_image_url]

error_bundle(body, why) ==
    <<ImageMessage(body.user_board_image_url), TextMessage("ai_error", why, body.move)>>

\* POST /callback/get_ai_next_move; tok_ok: the reply token has not expired
CallbackGetAiNextMove(job, body, tok_ok) ==
    /\ UNCHANGED idleVars
    /\ \E loaded \in {get_game_state(session, sgf_store, now)} :
       \E state \in {apply_move(loaded.state, body.move, body.current_turn)} :
       \E saved \in {save_game_sgf(loaded.session, sgf_store, state, now)} :
       LET coords == parse_coordinates(body.move)
           image_url == get_public_url("board_ai", saved.game_id, now)
           ran(outcome) == [name |-> "callback", outcome |-> outcome,
                            token |-> body.reply_token, tok_ok |-> tok_ok,
                            image |-> body.user_board_image_url, arg |-> body.move,
                            game_id |-> job.game_id, spawned |-> FALSE,
                            before |-> <<>>, http |-> 0, reads |-> NoFaults,
                            write |-> "ok"]
           fail(outcome, why) ==
               /\ sent' = <<send_message(body.reply_token, tok_ok, error_bundle(body, why))>>
               /\ op' = ran(outcome)
       IN  /\ jobs' = jobs \ {job}
           /\ IF body.status = "failed"
              THEN /\ fail("failed", "failed")
                   /\ UNCHANGED <<session, sgf_store, n_moves>>
              ELSE IF body.move = NoText
              THEN /\ fail("no_move", "no_move")
                   /\ UNCHANGED <<session, sgf_store, n_moves>>
              ELSE IF coords = None
              THEN /\ fail("bad_format", "format")
                   /\ session' = loaded.session
                   /\ UNCHANGED <<sgf_store, n_moves>>
              ELSE IF ~state.ok
              THEN /\ fail("rejected", state.msg)
                   /\ session' = loaded.session
                   /\ UNCHANGED <<sgf_store, n_moves>>
              ELSE /\ n_moves < MaxNewMoves
                   /\ n_moves' = n_moves + 1
                   /\ session' = saved.session
                   /\ sgf_store' = saved.store
                   /\ sent' = <<send_message(body.reply_token, tok_ok,
                                   <<ImageMessage(body.user_board_image_url),
                                     TextMessage("ai_played", "", body.move),
                                     ImageMessage(image_url),
                                     TextMessage("your_turn", "", NoText)>>)>>
                   /\ op' = ran("placed")

\* ---------------------------------------------------------- chat machine
\* One chat. It is new, or it holds two games played earlier, the older one
\* current. The webhook handlers run while their reply token is valid and the
\* store reads succeed; the callback may find the token expired.
\* The coordinates typed in the chat, and the answers of the engine:
PlayTexts == {T("A", 1), T("B", 1), T("A", 2)}
GtpAnswers == PlayTexts \cup {Pass, Resign, NoText, T("I", 1)}
Bodies(job) ==
    {get_ai_next_move(job, answer) : answer \in GtpAnswers}
    \cup {[get_ai_next_move(job, T("A", 1)) EXCEPT !.move = NoText]}

OtherGame == SeedGame(<<T("B", 2)>>).sgf_game

InitPlay ==
    /\ board = EmptyBoard
    /\ ko_point = None
    /\ rejected = NoCall
    /\ former = [pt |-> None, color |-> 0, retaken |-> FALSE]
    /\ sgf_game = <<>>
    /\ current_turn = 1
    /\ n_moves = 0
    /\ jobs = {}
    /\ now = GameB + 1
    /\ sent = <<>>
    /\ op = NoOp
    /\ handlers = <<>>
    /\ auth = NoAuth
    /\ review = NoReview
    /\ \/ /\ session = NoState
          /\ sgf_store = [g \in {} |-> <<>>]
       \/ \E seed \in {KoSeed, SuicideSeed}, mode \in {"unset", "on", "off"} :
           \E g \in {SeedGame(seed)} :
             LET meta == merged_state(NoState, GameA, g.current_turn)
             IN  /\ Len(g.sgf_game) = Len(seed)
                 /\ sgf_store = StorePut(StorePut([x \in {} |-> <<>>], GameA, g.sgf_game),
                                         GameB, OtherGame)
                 /\ session = IF mode = "unset" THEN meta
                              ELSE set_vs_ai_mode(meta, mode = "on")

NextPlay ==
    \/ \E coord_text \in PlayTexts, spawned \in BOOLEAN :
          HandleBoardMove(coord_text, spawned, TRUE, NoFaults)
    \/ HandleUndoMove(TRUE)
    \/ \E asked \in {NoGame, GameB, GameB + 1} : HandleLoadGameById(asked, TRUE)
    \/ \E flag \in BOOLEAN : HandleVsAi(flag, TRUE, TRUE)
    \/ \E job \in jobs : \E body \in Bodies(job), tok_ok \in BOOLEAN :
          CallbackGetAiNextMove(job, body, tok_ok)

SpecPlay == InitPlay /\ [][NextPlay]_vars

\* ------------------------------------------------- reset, load first N moves
\* the root properties of sgf.Sgf_game(size=19), and the ones
\* create_sgf_with_first_n_moves copies
sgf_root == {"FF", "GM", "CA", "SZ"}
common_props == {"SZ", "KM", "RU", "DT", "PB", "PW", "RE", "HA", "PL", "FF", "CA", "GM", "AP"}
copied_root(root) == root \cap common_props

FlexMessage(url) ==
    [type |-> "flex", tag |-> "sgf_file", why |-> "", arg |-> NoText, url |-> url]

\* game_{int(time.time())}
new_game_id(t) == t

\* variant: the turn stored in the session is left as it was
reset_game_state_KeepsTurn(existing_state, store, t) ==
    [game_id |-> new_game_id(t),
     session |-> Put(existing_state, "game_id", new_game_id(t)),
     store |-> StorePut(store, new_game_id(t), <<>>)]
reset_game_state(existing_state, store, t) ==
    [game_id |-> new_game_id(t),
     session |-> Put(Put(existing_state, "game_id", new_game_id(t)), "current_turn", 1),
     store |-> StorePut(store, new_game_id(t), <<>>)]

\* "reset"
HandleReset(tok_ok) ==
    LET reply_token == FreshToken
        current_game_id == Get(session, "game_id", NoGame)
        current_sgf_url == IF current_game_id \in DOMAIN sgf_store
                           THEN get_public_url("sgf", current_game_id, 0)
                           ELSE NoUrl
        done == reset_game_state(session, sgf_store, now)
        card == IF current_sgf_url # NoUrl THEN <<FlexMessage(current_sgf_url)>> ELSE <<>>
    IN  /\ UNCHANGED idleVars
        /\ n_moves < MaxNewMoves
        /\ n_moves' = n_moves + 1
        /\ session' = done.session
        /\ sgf_store' = done.store
        /\ sent' = replied(reply_token, tok_ok,
                           card \o <<TextMessage("reset", "", NoText)>>)
        /\ op' = [Ran(Op("reset", "done", reply_token, NoText), tok_ok)
                     EXCEPT !.game_id = done.game_id]
        /\ UNCHANGED jobs

create_sgf_with_first_n_moves(sgf_game_, n_moves_) ==
    [i \in 1 .. (IF n_moves_ < Len(sgf_game_) THEN n_moves_ ELSE Len(sgf_game_)) |->
        sgf_game_[i]]

\* "load game_<id> <N>" with N > 0
HandleLoadGameByIdWithMoves(source_game_id, move_count, tok_ok) ==
    LET reply_token == FreshToken
        say(outcome, messages) ==
            /\ sent' = replied(reply_token, tok_ok, messages)
            /\ op' = [Ran(Op("load_n", outcome, reply_token, T("moves", move_count)), tok_ok)
                         EXCEPT !.game_id = source_game_id]
    IN  /\ UNCHANGED idleVars
        /\ UNCHANGED jobs
        /\ IF source_game_id \notin DOMAIN sgf_store
           THEN /\ say("not_found", <<TextMessage("not_found", "", NoText)>>)
                /\ UNCHANGED <<session, sgf_store, n_moves>>
           ELSE IF move_count > Len(sgf_store[source_game_id])
           THEN /\ say("too_few", <<TextMessage("too_few", "", T("moves", move_count))>>)
                /\ UNCHANGED <<session, sgf_store, n_moves>>
           ELSE \E truncated_sgf \in {create_sgf_with_first_n_moves(
                                          sgf_store[source_game_id], move_count)} :
                \E restored \in {restore_game_from_sgf_object(truncated_sgf)} :
                   /\ n_moves < MaxNewMoves
                   /\ n_moves' = n_moves + 1
                   /\ sgf_store' = StorePut(sgf_store, new_game_id(now), truncated_sgf)
                   /\ session' = Put(Put(Put(NoState, "game_id", new_game_id(now)),
                                         "current_turn", restored.current_turn),
                                     "vs_ai_mode", Get(session, "vs_ai_mode", FALSE))
                   /\ say("loaded",
                          <<TextMessage("loaded_n", "", T("moves", move_count)),
                            ImageMessage(get_public_url("board_restored",
                                                        new_game_id(now), now))>>)

\* a second passes
Tick ==
    /\ now < MaxNow
    /\ now' = now + 1
    /\ UNCHANGED <<board, ko_point, rejected, former, sgf_game, current_turn, n_moves,
                   session, sgf_store, jobs, sent, op, handlers, auth, review>>

\* One chat and its games: moves, undo, reset and the loads, while time passes.
NextGames ==
    \/ \E coord_text \in {T("A", 1), T("B", 1)} :
          HandleBoardMove(coord_text, FALSE, TRUE, NoFaults)
    \/ HandleUndoMove(TRUE)
    \/ HandleReset(TRUE)
    \/ \E source_game_id \in {GameA, GameB, GameB + 1}, move_count \in 1 .. MaxNewMoves :
          HandleLoadGameByIdWithMoves(source_game_id, move_count, TRUE)
    \/ \E asked \in {GameA, GameB + 1} : HandleLoadGameById(asked, TRUE)
    \/ Tick

SpecGames == InitPlay /\ [][NextGames]_vars

\* One chat whose reply tokens may have expired when a handler answers, and
\* whose store reads may fail while a coordinate is handled.
NextFaults ==
    \/ \E coord_text \in {T("A", 1), T("B", 1)}, spawned \in BOOLEAN,
          tok_ok \in BOOLEAN, reads \in Reads :
          HandleBoardMove(coord_text, spawned, tok_ok, reads)
    \/ \E tok_ok \in BOOLEAN : HandleUndoMove(tok_ok)
    \/ \E tok_ok \in BOOLEAN : HandleReset(tok_ok)
    \/ \E tok_ok \in BOOLEAN : HandleLoadGameByIdWithMoves(GameA, 1, tok_ok)
    \/ \E asked \in {NoGame, GameB}, tok_ok \in BOOLEAN : HandleLoadGameById(asked, tok_ok)
    \/ \E flag \in BOOLEAN, tok_ok \in BOOLEAN : HandleVsAi(flag, tok_ok, TRUE)

SpecFaults == InitPlay /\ [][NextFaults]_vars

\* ------------------------------------------- a coordinate, saved or not
\* the outcomes of the two store writes of save_game_sgf: upload_buffer of
\* the record raises ("sgf_error"), or save_state_to_gcs fails ("state_error":
\* it logs the exception and returns False, which save_game_sgf does not read)
Writes == {"ok", "sgf_error", "state_error"}

\* save_game_sgf under these outcomes: it catches every exception of the
\* upload and returns None; path: the gs:// path it returns, or <<>> for None
save_game_sgf_under(write, state_meta, store, state, t) ==
    LET saved == save_game_sgf(state_meta, store, state, t)
        game_id == get_game_id(state_meta, t).game_id
    IN  IF write = "sgf_error"
        THEN [path |-> <<>>, game_id |-> game_id, store |-> store, session |-> state_meta]
        ELSE IF write = "state_error"
        THEN [path |-> <<game_id>>, game_id |-> game_id, store |-> saved.store,
              session |-> state_meta]
        ELSE [path |-> <<game_id>>, game_id |-> game_id, store |-> saved.store,
              session |-> saved.session]

\* handle_board_move when the store reads succeed and the writes end as
\* `write` says
HandleBoardMoveSaving(coord_text, spawned, write) ==
    /\ UNCHANGED idleVars
    /\ \E reply_token \in {FreshToken} :
       \E loaded \in {get_game_state(session, sgf_store, now)} :
       \E state \in {apply_move(loaded.state, coord_text, loaded.state.current_turn)} :
       \E saved \in {save_game_sgf_under(write, loaded.session, sgf_store, state, now)} :
       LET image_url == get_public_url("board", saved.game_id, now)
           job == [reply_token |-> reply_token,
                   user_board_image_url |-> image_url,
                   current_turn |-> state.current_turn,
                   game_id |-> saved.game_id,
                   record |-> state.sgf_game]
           ran(outcome) == [Op("move", outcome, reply_token, coord_text)
                               EXCEPT !.write = write, !.game_id = saved.game_id,
                                      !.before = <<loaded.state>>]
       IN  IF ~state.ok
           THEN /\ session' = loaded.session
                /\ sent' = <<reply_message(reply_token,
                                           <<TextMessage("hint", state.msg, coord_text)>>)>>
                /\ op' = [ran("rejected") EXCEPT !.write = "ok"]
                /\ UNCHANGED <<sgf_store, jobs, n_moves>>
           ELSE /\ n_moves < MaxNewMoves
                /\ n_moves' = n_moves + 1
                /\ session' = saved.session
                /\ sgf_store' = saved.store
                /\ IF is_vs_ai_mode(saved.session) /\ spawned /\ saved.path # <<>>
                   THEN /\ jobs' = jobs \cup {job}
                        /\ sent' = <<>>
                        /\ op' = [ran("dispatched") EXCEPT !.spawned = TRUE]
                   ELSE /\ jobs' = jobs
                        /\ sent' = <<reply_message(reply_token, <<ImageMessage(image_url)>>)>>
                        /\ op' = [ran("replied") EXCEPT !.spawned = spawned]

\* One chat whose store writes may fail while a coordinate is saved.
NextSaving ==
    \/ \E coord_text \in {T("A", 1), T("B", 1)}, spawned \in BOOLEAN, write \in Writes :
          HandleBoardMoveSaving(coord_text, spawned, write)
    \/ \E flag \in BOOLEAN : HandleVsAi(flag, TRUE, TRUE)
    \/ HandleReset(TRUE)

SpecSaving == InitPlay /\ [][NextSaving]_vars

\* --------------------------------------- two coordinates handled at once
\* handle_board_move at the grain of its store and platform calls: every call
\* is one step, the code between two calls runs with the call before it.
\* The store replaces an object as a whole.
Idle(reply_token, coord_text) ==
    [pc |-> "start", coord_text |-> coord_text, reply_token |-> reply_token,
     state_meta |-> NoState, seen |-> NoState, state |-> NewGame,
     game_id |-> NoGame, existing_state |-> NoState]

\* place_stone on the state get_game_state returned, and the record's new node
placed(h, loaded_state) ==
    CHOOSE next \in {[h EXCEPT !.state = state,
                               !.pc = IF state.ok THEN "save_id" ELSE "hint"] :
                        state \in {apply_move(loaded_state, h.coord_text,
                                              loaded_state.current_turn)}} : TRUE

\* get_game_state: load_state_from_gcs
LoadState(i) ==
    /\ handlers[i].pc = "start"
    /\ UNCHANGED raceIdle
    /\ handlers' = [handlers EXCEPT ![i] =
                       [@ EXCEPT !.state_meta = session,
                                 !.pc = IF Has(session, "game_id")
                                        THEN "read_sgf" ELSE "get_id"]]
    /\ UNCHANGED <<session, sgf_store, jobs, sent, op, n_moves>>

\* get_game_state: file_exists and download_file of the session's record
ReadSgf(i) ==
    /\ handlers[i].pc = "read_sgf"
    /\ UNCHANGED raceIdle
    /\ LET game_id == handlers[i].state_meta["game_id"]
       IN  handlers' = [handlers EXCEPT ![i] =
                           IF game_id \in DOMAIN sgf_store
                           THEN placed(@, restored_state(sgf_store[game_id]))
                           ELSE [@ EXCEPT !.pc = "get_id"]]
    /\ UNCHANGED <<session, sgf_store, jobs, sent, op, n_moves>>

\* get_game_id: load_state_from_gcs, in get_game_state and in save_game_sgf
GetGameId(i) ==
    /\ handlers[i].pc \in {"get_id", "save_id"}
    /\ UNCHANGED raceIdle
    /\ handlers' = [handlers EXCEPT ![i] =
                       IF ~Has(session, "game_id")
                       THEN [@ EXCEPT !.seen = session,
                                      !.pc = IF @ = "get_id" THEN "get_id_new"
                                             ELSE "save_id_new"]
                       ELSE IF @.pc = "get_id"
                       THEN placed([@ EXCEPT !.seen = session], NewGame)
                       ELSE [@ EXCEPT !.seen = session,
                                      !.game_id = session["game_id"],
                                      !.pc = "upload"]]
    /\ UNCHANGED <<session, sgf_store, jobs, sent, op, n_moves>>

\* get_game_id: save_state_to_gcs of the game id it made
NewGameId(i) ==
    /\ handlers[i].pc \in {"get_id_new", "save_id_new"}
    /\ UNCHANGED raceIdle
    /\ LET made == get_game_id(handlers[i].seen, now)
       IN  /\ session' = made.session
           /\ handlers' = [handlers EXCEPT ![i] =
                              IF @.pc = "get_id_new"
                              THEN placed(@, NewGame)
                              ELSE [@ EXCEPT !.game_id = made.game_id, !.pc = "upload"]]
    /\ UNCHANGED <<sgf_store, jobs, sent, op, n_moves>>

\* save_game_sgf: upload_buffer of the record
UploadSgf(i) ==
    /\ handlers[i].pc = "upload"
    /\ UNCHANGED raceIdle
    /\ sgf_store' = StorePut(sgf_store, handlers[i].game_id, handlers[i].state.sgf_game)
    /\ handlers' = [handlers EXCEPT ![i].pc = "save_load"]
    /\ UNCHANGED <<session, jobs, sent, op, n_moves>>

\* save_game_sgf: load_state_from_gcs
LoadExisting(i) ==
    /\ handlers[i].pc = "save_load"
    /\ UNCHANGED raceIdle
    /\ handlers' = [handlers EXCEPT ![i] =
                       [@ EXCEPT !.existing_state = session, !.pc = "save_state"]]
    /\ UNCHANGED <<session, sgf_store, jobs, sent, op, n_moves>>

\* save_game_sgf: save_state_to_gcs
SaveState(i) ==
    /\ handlers[i].pc = "save_state"
    /\ UNCHANGED raceIdle
    /\ session' = merged_state(handlers[i].existing_state, handlers[i].game_id,
                               handlers[i].state.current_turn)
    /\ handlers' = [handlers EXCEPT ![i].pc = "reply"]
    /\ UNCHANGED <<sgf_store, jobs, sent, op, n_moves>>

\* the hint of a refused coordinate; or, for an accepted one, the board image
\* under the session's game id, then the genmove job or the reply
Reply(i, spawned) ==
    /\ handlers[i].pc \in {"hint", "reply"}
    /\ UNCHANGED raceIdle
    /\ LET h == handlers[i]
           image_url == get_public_url("board", Get(session, "game_id", now), now)
           job == [reply_token |-> h.reply_token,
                   user_board_image_url |-> image_url,
                   current_turn |-> h.state.current_turn,
                   game_id |-> h.game_id,
                   record |-> h.state.sgf_game]
       IN  IF h.pc = "hint"
           THEN /\ sent' = Append(sent, reply_message(h.reply_token,
                                     <<TextMessage("hint", h.state.msg, h.coord_text)>>))
                /\ UNCHANGED jobs
           ELSE IF is_vs_ai_mode(session) /\ spawned
           THEN /\ jobs' = jobs \cup {job}
                /\ UNCHANGED sent
           ELSE /\ sent' = Append(sent, reply_message(h.reply_token,
                                                      <<ImageMessage(image_url)>>))
                /\ UNCHANGED jobs
    /\ handlers' = [handlers EXCEPT ![i].pc = "done"]
    /\ UNCHANGED <<session, sgf_store, op, n_moves>>

\* Two coordinates reach a chat that is new or holds a game; op.before keeps
\* the game as it was.
InitRace ==
    /\ board = EmptyBoard
    /\ ko_point = None
    /\ rejected = NoCall
    /\ former = [pt |-> None, color |-> 0, retaken |-> FALSE]
    /\ sgf_game = <<>>
    /\ current_turn = 1
    /\ n_moves = 0
    /\ jobs = {}
    /\ now = GameB + 1
    /\ sent = <<>>
    /\ \E first \in PlayTexts, second \in PlayTexts :
          handlers = <<Idle(1, first), Idle(2, second)>>
    /\ auth = NoAuth
    /\ review = NoReview
    /\ \/ /\ session = NoState
          /\ sgf_store = [g \in {} |-> <<>>]
          /\ op = [NoOp EXCEPT !.before = <<NewGame>>]
       \/ \E seed \in {KoSeed, SuicideSeed}, mode \in {"unset", "on"} :
           \E g \in {SeedGame(seed)} :
             LET meta == merged_state(NoState, GameA, g.current_turn)
             IN  /\ Len(g.sgf_game) = Len(seed)
                 /\ sgf_store = StorePut(StorePut([x \in {} |-> <<>>], GameA, g.sgf_game),
                                         GameB, OtherGame)
                 /\ session = IF mode = "unset" THEN meta
                              ELSE set_vs_ai_mode(meta, mode = "on")
                 /\ op = [NoOp EXCEPT !.before = <<g>>]

NextRace ==
    \/ \E i \in DOMAIN handlers : LoadState(i)
    \/ \E i \in DOMAIN handlers : ReadSgf(i)
    \/ \E i \in DOMAIN handlers : GetGameId(i)
    \/ \E i \in DOMAIN handlers : NewGameId(i)
    \/ \E i \in DOMAIN handlers : UploadSgf(i)
    \/ \E i \in DOMAIN handlers : LoadExisting(i)
    \/ \E i \in DOMAIN handlers : SaveState(i)
    \/ \E i \in DOMAIN handlers, spawned \in BOOLEAN : Reply(i, spawned)
    \/ Tick

SpecRace == InitRace /\ [][NextRace]_vars

\* ------------------------------------------------------------ the auth gate
\* the token texts: the secret, the secret typed or configured with a space
\* after it, another key, the empty text
Secret == <<"k">>
Padded == <<"k", " ">>
Wrong == <<"x">>

\* "auth <token>": the token is kept for the chat when it is the configured one
HandleAuthCommand(typed, tok_ok, saved) ==
    LET reply_token == FreshToken
        token == strip(typed)
        say(outcome) ==
            /\ sent' = <<send_message(reply_token, tok_ok,
                                      <<TextMessage("auth", outcome, NoText)>>)>>
            /\ op' = [Op("auth", outcome, reply_token, NoText) EXCEPT !.tok_ok = tok_ok]
    IN  /\ UNCHANGED <<board, ko_point, rejected, former, sgf_game, current_turn, now,
                       handlers, review>>
        /\ UNCHANGED <<session, sgf_store, jobs, n_moves>>
        /\ IF ~truthy(auth.token)
           THEN say("not_configured") /\ auth' = auth
           ELSE IF strip(token) # auth.token[1]
           THEN say("wrong_key") /\ auth' = auth
           ELSE IF saved
           THEN say("ok") /\ auth' = [auth EXCEPT !.stored = Str(strip(token))]
           ELSE say("not_saved") /\ auth' = auth

\* the review function spawned for the chat's latest uploaded record: the
\* call-th spawn; its callback pushes (reply token 0)
ReviewJob(call) == [reply_token |-> 0, function |-> "review", call |-> call]
ReviewJobs(spawns) == {j \in spawns : j.reply_token = 0}

\* "review"; has_sgf: the chat has uploaded a record; spawned: the review
\* function is configured and spawning it raised nothing
HandleReviewCommand(has_sgf, spawned, tok_ok, auth_read) ==
    LET reply_token == FreshToken
        first(tag) == send_message(reply_token, tok_ok, <<TextMessage(tag, "", NoText)>>)
        ran(outcome) ==
            [Op("review", outcome, reply_token, NoText)
                EXCEPT !.tok_ok = tok_ok, !.spawned = spawned]
    IN  /\ UNCHANGED idleVars
        /\ UNCHANGED <<session, sgf_store, n_moves>>
        /\ IF ~authenticated(auth, auth_read)
           THEN /\ sent' = <<first("need_auth")>>
                /\ op' = ran("need_auth")
                /\ jobs' = jobs
           ELSE IF ~has_sgf
           THEN /\ sent' = <<first("no_sgf")>>
                /\ op' = ran("no_sgf")
                /\ jobs' = jobs
           ELSE IF spawned
           THEN /\ Cardinality(ReviewJobs(jobs)) < MaxNewMoves
                /\ sent' = <<first("review_started")>>
                /\ op' = ran("dispatched")
                /\ jobs' = jobs \cup {ReviewJob(Cardinality(ReviewJobs(jobs)) + 1)}
           ELSE /\ sent' = <<first("review_started"),
                             push_message(<<TextMessage("error", "modal", NoText)>>)>>
                /\ op' = ran("error")
                /\ jobs' = jobs

\* AUTH_TOKEN unset, empty or set; the chat without auth.txt or with one that
\* an earlier "auth" wrote (save_auth_token writes stripped text)
InitAuth ==
    /\ board = EmptyBoard
    /\ ko_point = None
    /\ rejected = NoCall
    /\ former = [pt |-> None, color |-> 0, retaken |-> FALSE]
    /\ sgf_game = <<>>
    /\ current_turn = 1
    /\ n_moves = 0
    /\ jobs = {}
    /\ now = GameB + 1
    /\ sent = <<>>
    /\ op = NoOp
    /\ handlers = <<>>
    /\ review = NoReview
    /\ sgf_store = [g \in {} |-> <<>>]
    /\ session \in {NoState, merged_state(NoState, GameA, 1)}
    /\ \E token \in {NoneStr, Str(<<>>), Str(Secret), Str(Padded)},
          stored \in {NoneStr, Str(Secret), Str(Wrong)} :
          auth = [token |-> token, stored |-> stored]

NextAuth ==
    \/ \E typed \in {Secret, Padded, Wrong}, tok_ok \in BOOLEAN, saved \in BOOLEAN :
          HandleAuthCommand(typed, tok_ok, saved)
    \/ \E has_sgf \in BOOLEAN, spawned \in BOOLEAN, tok_ok \in BOOLEAN,
          auth_read \in BOOLEAN :
          HandleReviewCommand(has_sgf, spawned, tok_ok, auth_read)
    \/ \E flag \in BOOLEAN, tok_ok \in BOOLEAN, auth_read \in BOOLEAN :
          HandleVsAi(flag, tok_ok, auth_read)

SpecAuth == InitAuth /\ [][NextAuth]_vars

\* ------------------------------------------------ send_message, call by call
\* the statuses line_bot_api.reply_message ends with: 200, or an ApiException
ReplyStatuses == {200, 400, 410, 429, 500}

\* variant: any failed reply falls back to push
expired_AnyError(status) == status # 200

\* e.status in [400, 410]
expired(status) == status \in {400, 410}

\* the message lists handed to send_message
SendLists ==
    {<<TextMessage("hint", why, NoText)>> : why \in {"occupied", "ko", "suicide"}}
    \cup {<<ImageMessage(get_public_url("board", g, GameB + 1)),
            TextMessage("ai_error", why, NoText)>> :
             g \in {GameA, GameB}, why \in {"failed", "no_move"}}

\* if reply_token: reply_message, with the status it ends with
ReplyCall(status) ==
    LET h == handlers[1]
        call == [via |-> "reply", token |-> h.reply_token,
                 messages |-> h.messages, status |-> status]
    IN  /\ h.pc = "start"
        /\ h.reply_token # 0
        /\ handlers' = <<[h EXCEPT !.calls = Append(@, call),
                                   !.pc = IF status = 200 THEN "returned"
                                          ELSE IF expired(status) THEN "push"
                                          ELSE "raised",
                                   !.result = (status = 200)]>>
        /\ sent' = IF status = 200
                   THEN Append(sent, reply_message(h.reply_token, h.messages))
                   ELSE sent
        /\ UNCHANGED raceIdle
        /\ UNCHANGED <<session, sgf_store, jobs, op, n_moves>>

\* push_message, which succeeds or raises
PushCall(ok) ==
    LET h == handlers[1]
        call == [via |-> "push", token |-> 0, messages |-> h.messages,
                 status |-> IF ok THEN 200 ELSE 500]
    IN  /\ h.pc = "push" \/ (h.pc = "start" /\ h.reply_token = 0)
        /\ handlers' = <<[h EXCEPT !.calls = Append(@, call),
                                   !.pc = IF ok THEN "returned" ELSE "raised",
                                   !.result = FALSE]>>
        /\ sent' = IF ok THEN Append(sent, push_message(h.messages)) ELSE sent
        /\ UNCHANGED raceIdle
        /\ UNCHANGED <<session, sgf_store, jobs, op, n_moves>>

\* send_message is called with a reply token (0: none) and a message list
InitSend ==
    /\ board = EmptyBoard
    /\ ko_point = None
    /\ rejected = NoCall
    /\ former = [pt |-> None, color |-> 0, retaken |-> FALSE]
    /\ sgf_game = <<>>
    /\ current_turn = 1
    /\ n_moves = 0
    /\ session = NoState
    /\ sgf_store = [g \in {} |-> <<>>]
    /\ jobs = {}
    /\ now = 0
    /\ sent = <<>>
    /\ op = NoOp
    /\ auth = NoAuth
    /\ review = NoReview
    /\ \E reply_token \in {0, 1, 2}, messages \in SendLists :
          handlers = <<[pc |-> "start", reply_token |-> reply_token,
                        messages |-> messages, calls |-> <<>>, result |-> FALSE]>>

NextSend ==
    \/ \E status \in ReplyStatuses : ReplyCall(status)
    \/ \E ok \in BOOLEAN : PushCall(ok)

SpecSend == InitSend /\ [][NextSend]_vars

\* ------------------------------------------------------ key-move selection
\* a move of the engine's statistics: its number and its score_loss in tenths
\* of a point, or null
NoLoss == <<>>
Loss(v) == <<v>>
Move(i, score_loss) == [move |-> i, score_loss |-> score_loss]

\* sorted(items, key=key, reverse=reverse): stable in both directions
sorted(items, key(_), reverse) ==
    LET before(j, i) ==
            \/ IF reverse THEN key(items[j]) > key(items[i])
                          ELSE key(items[j]) < key(items[i])
            \/ key(items[j]) = key(items[i]) /\ j < i
        rank(i) == 1 + Cardinality({j \in DOMAIN items : before(j, i)})
    IN  [r \in 1 .. Len(items) |-> items[CHOOSE i \in DOMAIN items : rank(i) = r]]

\* items[:n]
first_n(items, n) == SubSeq(items, 1, IF n < Len(items) THEN n ELSE Len(items))

top_n == 20
threshold == 20

\* handlers/sgf_handler.py
moves_with_score_loss(moves) == SelectSeq(moves, LAMBDA m : m.score_loss # NoLoss)

sorted_by_score_loss_Ascending(moves) == sorted(moves, LAMBDA m : m.score_loss[1], FALSE)
sorted_by_score_loss(moves) == sorted(moves, LAMBDA m : m.score_loss[1], TRUE)

get_top_score_loss_moves_Unsorted(moves, n) ==
    first_n(sorted_by_score_loss(moves_with_score_loss(moves)), n)
get_top_score_loss_moves(moves, n) ==
    sorted(first_n(sorted_by_score_loss(moves_with_score_loss(moves)), n),
           LAMBDA m : m.move, FALSE)

\* draw/draw.py: a null score_loss counts as 0.0
get_score_loss(m) == IF m.score_loss # NoLoss THEN m.score_loss[1] ELSE 0
draw_filter_critical_moves(moves) ==
    SelectSeq(moves, LAMBDA m : get_score_loss(m) > threshold)
draw_get_top_score_loss_moves(moves, n) ==
    sorted(first_n(sorted(moves, get_score_loss, TRUE), n), LAMBDA m : m.move, FALSE)

\* the statistics of a game: move i has the loss the pattern gives it, and the
\* move numbered hole has none
Losses == {NoLoss, Loss(-5), Loss(1), Loss(20), Loss(30), Loss(50), Loss(80)}
Stats(len, pattern, hole) ==
    [i \in 1 .. len |->
        Move(i, IF i = hole THEN NoLoss ELSE pattern[((i - 1) % 3) + 1])]
Example ==
    <<Move(1, NoLoss), Move(2, Loss(1)), Move(3, Loss(50)), Move(4, Loss(30)),
      Move(5, Loss(20)), Move(6, Loss(80)), Move(7, NoLoss)>>
MoveLists ==
    {Stats(len, pattern, hole) : len \in {0, 1, 7, MaxMoves - 1, MaxMoves},
                                 pattern \in [1 .. 3 -> Losses], hole \in {0, 1, 7}}
    \cup {Example}

Selected(by, top_moves) ==
    [review EXCEPT !.stage = "selected", !.by = by, !.top_moves = top_moves]

\* the bot's selection of the key moves of a review
SelectKeyMoves ==
    /\ review.stage = "stats"
    /\ review' = Selected("sgf_handler", get_top_score_loss_moves(review.moves, top_n))
    /\ UNCHANGED <<board, ko_point, rejected, former, sgf_game, current_turn, n_moves,
                   session, sgf_store, jobs, now, sent, op, handlers, auth>>

\* the drawing script's: the critical moves, then the top of them
DrawKeyMoves ==
    /\ review.stage = "stats"
    /\ review' = Selected("draw", draw_get_top_score_loss_moves(
                                      draw_filter_critical_moves(review.moves), top_n))
    /\ UNCHANGED <<board, ko_point, rejected, former, sgf_game, current_turn, n_moves,
                   session, sgf_store, jobs, now, sent, op, handlers, auth>>

InitSelect ==
    /\ board = EmptyBoard
    /\ ko_point = None
    /\ rejected = NoCall
    /\ former = [pt |-> None, color |-> 0, retaken |-> FALSE]
    /\ sgf_game = <<>>
    /\ current_turn = 1
    /\ n_moves = 0
    /\ session = NoState
    /\ sgf_store = [g \in {} |-> <<>>]
    /\ jobs = {}
    /\ now = 0
    /\ sent = <<>>
    /\ op = NoOp
    /\ handlers = <<>>
    /\ auth = NoAuth
    /\ \E moves \in MoveLists :
          review = [stage |-> "stats", moves |-> moves, by |-> "none", top_moves |-> <<>>]

NextSelect ==
    \/ SelectKeyMoves
    \/ DrawKeyMoves

SpecSelect == InitSelect /\ [][NextSelect]_vars

\* ------------------------------------------------- group and room messages
\* Texts are their characters. The bot's display name is "B" and its user id
\* "Ubot"; "A" is another member. Commands are written short: "u" undo,
\* "v" vs ai, "A1" a coordinate; "x" is no command.
bot_display_name == <<"B">>
bot_user_id == "Ubot"
lower(c) == IF c = "B" THEN "b" ELSE IF c = "A" THEN "a" ELSE c

\* a mentionee of the mention payload; userId "" when the payload has none
Mentionee(index, userId, isSelf) ==
    [index |-> index, length |-> 2, userId |-> userId, isSelf |-> isSelf]

\* re.match(rf"^@{name}\s+(.+)$", text, re.IGNORECASE) on a stripped text:
\* <<the command after the name>>, or <<>> when there is no match
text_mention_match(name, text) ==
    LET n == Len(name)
    IN  IF /\ Len(text) > n + 2
           /\ text[1] = "@"
           /\ \A i \in 1 .. n : lower(text[i + 1]) = lower(name[i])
           /\ text[n + 2] = " "
        THEN <<strip(SubSeq(text, n + 2, Len(text)))>>
        ELSE <<>>

\* variant: a mentionee that is anyone at all counts
is_bot_mentioned_Anyone(mentions, user_id) == Len(mentions) > 0

\* any(mentionee.get("userId") == bot_user_id ...) if bot_user_id else False;
\* user_id: what get_bot_user_id returned (<<>>: None)
is_bot_mentioned(mentions, user_id) ==
    /\ user_id # <<>>
    /\ \E k \in DOMAIN mentions : mentions[k].userId = user_id[1]

\* the mention spans cut out of the text, last span first
RECURSIVE cut_spans(_, _)
cut_spans(clean_text, spans) ==
    IF spans = <<>> THEN clean_text
    ELSE LET index == Head(spans).index
             length == Head(spans).length
         IN  cut_spans(SubSeq(clean_text, 1, index)
                           \o SubSeq(clean_text, index + length + 1, Len(clean_text)),
                       Tail(spans))
clean_text(text, mentions) ==
    strip(cut_spans(text, sorted(mentions, LAMBDA m : m.index, TRUE)))

\* the head of handle_text_message: whether the message goes on to the
\* commands, and with which text; name_ok, id_ok: get_bot_info answered
addressed(event, name_ok, id_ok) ==
    LET text == strip(event.text)
        grouped == event.type \in {"group", "room"}
        matched == IF name_ok THEN text_mention_match(bot_display_name, text) ELSE <<>>
        user_id == IF id_ok THEN <<bot_user_id>> ELSE <<>>
    IN  IF ~grouped THEN [run |-> TRUE, text |-> text]
        ELSE IF matched # <<>> THEN [run |-> TRUE, text |-> matched[1]]
        ELSE IF event.mentionees = <<>> THEN [run |-> FALSE, text |-> text]
        ELSE IF ~is_bot_mentioned(event.mentionees, user_id)
        THEN [run |-> FALSE, text |-> text]
        ELSE [run |-> TRUE, text |-> clean_text(text, event.mentionees)]

\* the command a text is routed to
route(text) ==
    IF \E i \in DOMAIN text : text[i] = "u" THEN "undo"
    ELSE IF text = <<"v">> THEN "vs_ai"
    ELSE IF text = <<"A", "1">> \/ text = <<"a", "1">> THEN "move"
    ELSE "none"

\* the texts typed in a chat, with the mention payload the client sends along
Commands == {<<"u">>, <<"v">>, <<"A", "1">>, <<"x">>}
Typed(command) ==
    {[text |-> command, mentionees |-> <<>>],
     [text |-> <<"@", "B", " ">> \o command, mentionees |-> <<>>],
     [text |-> <<"@", "b", " ", " ">> \o command, mentionees |-> <<>>],
     [text |-> <<"@", "B">> \o command, mentionees |-> <<>>],
     [text |-> <<"@", "A", " ">> \o command, mentionees |-> <<>>],
     [text |-> <<"@", "A", " ">> \o command,
      mentionees |-> <<Mentionee(0, "Ualice", FALSE)>>],
     [text |-> <<"@", "B", " ">> \o command,
      mentionees |-> <<Mentionee(0, bot_user_id, TRUE)>>],
     [text |-> command \o <<" ", "@", "B">>,
      mentionees |-> <<Mentionee(Len(command) + 1, bot_user_id, TRUE)>>],
     [text |-> command \o <<" ", "@", "B">>,
      mentionees |-> <<Mentionee(Len(command) + 1, "", TRUE)>>],
     [text |-> <<"@", "A", " ">> \o command \o <<" ", "@", "B">>,
      mentionees |-> <<Mentionee(0, "Ualice", FALSE),
                       Mentionee(Len(command) + 4, bot_user_id, FALSE)>>]}
Events ==
    {[type |-> type, text |-> typed.text, mentionees |-> typed.mentionees] :
        type \in {"user", "group", "room"},
        typed \in UNION {Typed(command) : command \in Commands}}

\* POST /webhook hands a text message to handle_text_message, which decides
\* whether the bot is addressed
Webhook(event, name_ok, id_ok) ==
    LET head == addressed(event, name_ok, id_ok)
    IN  /\ handlers' = <<[event |-> event, name_ok |-> name_ok, id_ok |-> id_ok,
                          run |-> head.run, text |-> head.text]>>
        /\ UNCHANGED <<board, ko_point, rejected, former, sgf_game, current_turn, n_moves,
                       session, sgf_store, jobs, now, sent, op, auth, review>>

\* the message being handled goes to this command
Routed(command) ==
    /\ handlers # <<>>
    /\ handlers[1].run
    /\ route(handlers[1].text) = command

\* the commands a message is routed to
GroupMove == Routed("move") /\ HandleBoardMove(T("A", 1), FALSE, TRUE, NoFaults)
GroupUndo == Routed("undo") /\ HandleUndoMove(TRUE)
GroupVsAi == Routed("vs_ai") /\ HandleVsAi(TRUE, TRUE, TRUE)

\* a chat that has not played yet
InitGroup == InitPlay /\ session = NoState

NextGroup ==
    \/ \E event \in Events, name_ok \in BOOLEAN, id_ok \in BOOLEAN :
          Webhook(event, name_ok, id_ok)
    \/ GroupMove
    \/ GroupUndo
    \/ GroupVsAi

SpecGroup == InitGroup /\ [][NextGroup]_vars

\* ------------------------------------------------------- the review task
\* The "review" command, the job it spawns, POST /callback/review and the
\* delivery of the results. review holds the calls the last handler made, in
\* the order it made them; sent holds its send_message calls.
MaxReviews == 1

Range(seq) == {seq[i] : i \in DOMAIN seq}

\* an object under target_{id}/reviews/: an uploaded record
\* {name}_{unix seconds}.sgf, or an artifact of an earlier review
Blob(name, time_created, sgf, stamp) ==
    [name |-> name, time_created |-> time_created, sgf |-> sgf, stamp |-> stamp]

\* list_files(prefix): the names under the prefix, in the order of the listing
list_files(blobs) == blobs

sgf_files(all_files) == SelectSeq(all_files, LAMBDA f : f.sgf)

\* max(sgf_blobs, key=time_created): the first of the newest
get_latest_sgf_Oldest(files) ==
    files[CHOOSE i \in DOMAIN files :
            /\ \A j \in DOMAIN files : files[j].time_created >= files[i].time_created
            /\ \A j \in 1 .. i - 1 : files[j].time_created > files[i].time_created]
get_latest_sgf(files) ==
    files[CHOOSE i \in DOMAIN files :
            /\ \A j \in DOMAIN files : files[j].time_created <= files[i].time_created
            /\ \A j \in 1 .. i - 1 : files[j].time_created < files[i].time_created]

\* the digits after the last "_" of the file name, else uuid4()
Uuid == 0
review_task_id(file) == IF file.stamp # 0 THEN file.stamp ELSE Uuid

\* review_function.spawn(task_id, sgf_gcs_path, callback_url, target_id)
review_spawn(call, task_id, sgf_gcs_path) ==
    ReviewJob(call) @@ [task_id |-> task_id, sgf_gcs_path |-> sgf_gcs_path]

\* what the last handler of the review did: its calls in order, what the
\* command found (the listing, the configuration, auth.txt read or not) and,
\* for the callback, the body it received and the outcomes it met
NoBody == [task_id |-> 0, status |-> "", move_stats |-> FALSE, json_gcs_path |-> FALSE]
NoEnv == [llm |-> "", media |-> <<>>, global_board |-> FALSE,
          winrate_chart |-> FALSE, carousel_error |-> 0]
\* the number of a spawned call: one no pending review holds
FreshCall == CHOOSE c \in 1 .. MaxReviews : \A j \in ReviewJobs(jobs) : j.call # c

Called(stage, calls) ==
    [stage |-> stage, calls |-> calls, files |-> <<>>, configured |-> TRUE,
     auth_read |-> TRUE, body |-> NoBody, top_moves |-> <<>>, env |-> NoEnv]

\* handle_review_command; files: the listing of reviews/; configured: the
\* Modal names and the callback URL are set; spawned: the spawn succeeded
ReviewCommand(files, configured, spawned, tok_ok, auth_read) ==
    LET reply_token == FreshToken
        first(tag) == send_message(reply_token, tok_ok, <<TextMessage(tag, "", NoText)>>)
        ran(outcome) ==
            [Op("review", outcome, reply_token, NoText)
                EXCEPT !.tok_ok = tok_ok, !.spawned = spawned]
        records == sgf_files(list_files(files))
        called(calls) ==
            [Called("command", calls) EXCEPT !.files = files,
                !.configured = configured, !.auth_read = auth_read]
    IN  /\ UNCHANGED <<board, ko_point, rejected, former, sgf_game, current_turn,
                       now, handlers, auth>>
        /\ UNCHANGED <<session, sgf_store, n_moves>>
        /\ IF ~authenticated(auth, auth_read)
           THEN /\ sent' = <<first("need_auth")>>
                /\ op' = ran("need_auth")
                /\ review' = called(<<"send">>)
                /\ jobs' = jobs
           ELSE IF records = <<>>
           THEN /\ sent' = <<first("no_sgf")>>
                /\ op' = ran("no_sgf")
                /\ review' = called(<<"send">>)
                /\ jobs' = jobs
           ELSE IF ~configured
           THEN /\ sent' = <<first("config")>>
                /\ op' = ran("config")
                /\ review' = called(<<"send">>)
                /\ jobs' = jobs
           ELSE IF spawned
           THEN /\ Cardinality(ReviewJobs(jobs)) < MaxReviews
                /\ sent' = <<first("review_started")>>
                /\ op' = ran("dispatched")
                /\ review' = called(<<"send", "spawn">>)
                /\ \E latest \in {get_latest_sgf(records)} :
                      jobs' = jobs \cup
                          {review_spawn(FreshCall, review_task_id(latest), latest.name)}
           ELSE /\ sent' = <<first("review_started"),
                             push_message(<<TextMessage("error", "modal", NoText)>>)>>
                /\ op' = ran("error")
                /\ review' = called(<<"send", "spawn", "send">>)
                /\ jobs' = jobs

\* ---- process_review_results
MAX_BUBBLES_PER_CAROUSEL == 10

\* the FlexMessage holding a carousel of bubbles, one per key move
create_carousel_flex_message(bubbles) ==
    [type |-> "flex", tag |-> "carousel", why |-> "", arg |-> NoText,
     url |-> NoUrl, moves |-> bubbles]
\* the text sent for a key move without a bubble
FallbackMessage(move_number, why) ==
    [type |-> "text", tag |-> "fallback", why |-> why, arg |-> NoText,
     url |-> NoUrl, moves |-> <<move_number>>]

Min(a, b) == IF a < b THEN a ELSE b

\* range(0, len(all_bubbles), MAX_BUBBLES_PER_CAROUSEL) and the slices
batches_Whole(all_bubbles) ==
    IF all_bubbles = <<>> THEN <<>> ELSE <<all_bubbles>>
batches(all_bubbles) ==
    [b \in 1 .. (Len(all_bubbles) + MAX_BUBBLES_PER_CAROUSEL - 1)
                    \div MAX_BUBBLES_PER_CAROUSEL |->
        SubSeq(all_bubbles, (b - 1) * MAX_BUBBLES_PER_CAROUSEL + 1,
               Min(b * MAX_BUBBLES_PER_CAROUSEL, Len(all_bubbles)))]

\* what becomes of one key move: "ok" (GIF drawn, uploaded, bubble built),
\* "missing" (no GIF of that number came back), "invalid_url",
\* "bubble_error" (create_video_preview_bubble raised), "raise"
\* (create_gif_for_move or upload_file raised)
Degraded == {"missing", "invalid_url", "bubble_error"}

Flatten(seqs) ==
    LET RECURSIVE cat(_)
        cat(n) == IF n = 0 THEN <<>> ELSE cat(n - 1) \o seqs[n]
    IN  cat(Len(seqs))

\* json_gcs_path: the body names the result file; env: llm ("ok", "raise"), media (what
\* becomes of each key move), global_board and winrate_chart (the files
\* exist), carousel_error (the number of the carousel whose send raises, or 0)
process_review_results(top_moves, json_gcs_path, env) ==
    LET start == push_message(<<TextMessage("review_done", "", NoText)>>)
        all_bubbles == SelectSeq(top_moves, LAMBDA m : env.media[m] = "ok")
        fallback_messages == SelectSeq(top_moves, LAMBDA m : env.media[m] \in Degraded)
        messages ==
            (IF env.global_board
             THEN <<TextMessage("global_board", "", NoText),
                    ImageMessage(get_public_url("global_board", NoGame, 0))>>
             ELSE <<>>)
            \o (IF env.winrate_chart
                THEN <<TextMessage("winrate_chart", "", NoText),
                       ImageMessage(get_public_url("winrate_chart", NoGame, 0))>>
                ELSE <<>>)
        pictures == IF messages = <<>> THEN <<>> ELSE <<push_message(messages)>>
        carousels ==
            Flatten([b \in DOMAIN batches(all_bubbles) |->
                        IF b = env.carousel_error THEN <<>>
                        ELSE <<push_message(<<create_carousel_flex_message(
                                              batches(all_bubbles)[b])>>)>>])
        fallbacks ==
            [i \in DOMAIN fallback_messages |->
                push_message(<<FallbackMessage(fallback_messages[i],
                                               env.media[fallback_messages[i]])>>)]
        sends(list) == [i \in DOMAIN list |-> "send"]
    IN  IF env.llm = "raise"
        THEN [sent |-> <<start>>, calls |-> <<"send", "llm">>]
        ELSE IF ~json_gcs_path
        THEN [sent |-> <<start, push_message(<<TextMessage("error", "no_path", NoText)>>)>>,
              calls |-> <<"send", "llm", "send">>]
        ELSE IF \E i \in DOMAIN top_moves : env.media[top_moves[i]] = "raise"
        THEN [sent |-> <<start>>, calls |-> <<"send", "llm", "draw">>]
        ELSE [sent |-> <<start>> \o pictures \o carousels \o fallbacks,
              calls |-> <<"send", "llm", "draw">> \o sends(pictures)
                        \o sends(batches(all_bubbles)) \o sends(fallbacks)]

\* the body the Modal function posts back
ReviewBody(job, status, move_stats, json_gcs_path) ==
    [task_id |-> job.task_id, status |-> status, move_stats |-> move_stats,
     json_gcs_path |-> json_gcs_path]

engine_failed_Never(status) == FALSE
engine_failed(status) == status = "failed"

\* POST /callback/review; top_moves: the key moves of body.move_stats
CallbackReview(job, body, top_moves, env) ==
    LET ran(outcome) == Op("callback_review", outcome, 0, NoText)
        error(why) == push_message(<<TextMessage("error", why, NoText)>>)
    IN  /\ UNCHANGED <<board, ko_point, rejected, former, sgf_game, current_turn,
                       now, handlers, auth>>
        /\ UNCHANGED <<session, sgf_store, n_moves>>
        /\ jobs' = jobs \ {job}
        /\ IF engine_failed(body.status)
           THEN /\ sent' = <<error("katago")>>
                /\ review' = [Called("callback", <<"send">>) EXCEPT !.body = body]
                /\ op' = ran("failed")
           ELSE IF ~body.move_stats
           THEN /\ sent' = <<error("no_stats")>>
                /\ review' = [Called("callback", <<"send">>) EXCEPT !.body = body]
                /\ op' = ran("no_stats")
           ELSE \E done \in {process_review_results(top_moves, body.json_gcs_path, env)} :
                /\ sent' = done.sent
                /\ review' = [Called("callback", done.calls) EXCEPT
                                 !.body = body, !.top_moves = top_moves, !.env = env]
                /\ op' = ran("processed")

\* ---- the review machine
\* The listing of reviews/ when the command arrives: records uploaded at
\* different times, two of them within the same tick, one whose name carries
\* no timestamp, and an artifact newer than all of them.
Blobs == <<Blob("a", 3, TRUE, 3), Blob("b", 1, TRUE, 0), Blob("c", 3, TRUE, 1),
           Blob("d", 4, FALSE, 0)>>
Listings ==
    {SelectSeq(Blobs, LAMBDA f : f.name \in names) :
        names \in {{}, {"d"}, {"b"}, {"a", "b", "d"}, {"b", "c", "d"},
                   {"a", "b", "c", "d"}}}

\* the key moves of a review, by move number, and what becomes of each
KeyMoves(n) == [i \in 1 .. n |-> 3 * i]
KeyCounts == {0, 2, MAX_BUBBLES_PER_CAROUSEL + 1, top_n}
Media(n, pattern, how) ==
    [m \in Range(KeyMoves(n)) |->
        IF \/ pattern = "all"
           \/ pattern \in {"first", "ends"} /\ m = KeyMoves(n)[1]
           \/ pattern = "ends" /\ m = KeyMoves(n)[n]
        THEN how ELSE "ok"]
Medias(n) ==
    {Media(n, "none", "ok")}
    \cup {Media(n, pattern, how) : pattern \in {"first", "ends", "all"},
                                   how \in {"missing", "raise"}}
    \cup {Media(n, "first", how) : how \in {"invalid_url", "bubble_error"}}
Env(llm, media, global_board, winrate_chart, carousel_error) ==
    [llm |-> llm, media |-> media, global_board |-> global_board,
     winrate_chart |-> winrate_chart, carousel_error |-> carousel_error]
Envs(n) ==
    {NoEnv, Env("raise", Media(n, "none", "ok"), TRUE, TRUE, 0)}
    \cup {Env("ok", media, pictures[1], pictures[2], 0) :
            media \in Medias(n),
            pictures \in {<<TRUE, TRUE>>, <<FALSE, TRUE>>, <<FALSE, FALSE>>}}
    \cup {Env("ok", media, TRUE, TRUE, 1) : media \in Medias(n)}

\* the bodies the Modal function posts: the review failed, or it succeeded
\* (with or without the statistics and the path of the result file)
ReviewBodies(job) ==
    {ReviewBody(job, "failed", FALSE, FALSE)}
    \cup {ReviewBody(job, "success", move_stats, json_gcs_path) :
             move_stats \in BOOLEAN, json_gcs_path \in BOOLEAN}

InitReview ==
    /\ board = EmptyBoard
    /\ ko_point = None
    /\ rejected = NoCall
    /\ former = [pt |-> None, color |-> 0, retaken |-> FALSE]
    /\ sgf_game = <<>>
    /\ current_turn = 1
    /\ n_moves = 0
    /\ jobs = {}
    /\ now = GameB + 1
    /\ sent = <<>>
    /\ op = NoOp
    /\ handlers = <<>>
    /\ review = NoReview
    /\ sgf_store = [g \in {} |-> <<>>]
    /\ session = NoState
    /\ auth \in {NoAuth, [token |-> Str(Secret), stored |-> Str(Secret)],
                 [token |-> Str(Secret), stored |-> NoneStr]}

NextReview ==
    \/ \E files \in Listings, configured \in BOOLEAN, spawned \in BOOLEAN,
          tok_ok \in BOOLEAN, auth_read \in BOOLEAN :
          ReviewCommand(files, configured, spawned, tok_ok, auth_read)
    \/ \E job \in ReviewJobs(jobs) :
       \E body \in ReviewBodies(job) :
       \E n \in KeyCounts :
       \E env \in Envs(n) :
          /\ IF body.status = "failed" \/ ~body.move_stats
             THEN n = 0 /\ env = NoEnv
             ELSE env # NoEnv
          /\ CallbackReview(job, body, KeyMoves(n), env)

SpecReview == InitReview /\ [][NextReview]_vars

\* ------------------------------------------- the engine's move, interleaved
\* One chat playing the engine: its current game has black to move; an earlier
\* game of one or of two moves is stored beside it. Moves, undo, reset, the
\* loads and the mode switches arrive while genmove jobs are pending.
EvenGame == SeedGame(<<T("B", 2), T("C", 2)>>).sgf_game

InitGenmove ==
    /\ board = EmptyBoard
    /\ ko_point = None
    /\ rejected = NoCall
    /\ former = [pt |-> None, color |-> 0, retaken |-> FALSE]
    /\ sgf_game = <<>>
    /\ current_turn = 1
    /\ n_moves = 0
    /\ jobs = {}
    /\ now = GameB + 1
    /\ sent = <<>>
    /\ op = NoOp
    /\ handlers = <<>>
    /\ auth = NoAuth
    /\ review = NoReview
    /\ \E seed \in {<<>>, SuicideSeed}, other \in {OtherGame, EvenGame} :
       \E g \in {SeedGame(seed)} :
          /\ sgf_store = StorePut(StorePut([x \in {} |-> <<>>], GameA, g.sgf_game),
                                  GameB, other)
          /\ session = set_vs_ai_mode(merged_state(NoState, GameA, g.current_turn), TRUE)

NextGenmove ==
    \/ \E coord_text \in PlayTexts, spawned \in BOOLEAN :
          HandleBoardMove(coord_text, spawned, TRUE, NoFaults)
    \/ HandleUndoMove(TRUE)
    \/ HandleReset(TRUE)
    \/ \E asked \in {NoGame, GameB} : HandleLoadGameById(asked, TRUE)
    \/ \E flag \in BOOLEAN : HandleVsAi(flag, TRUE, TRUE)
    \/ \E job \in jobs : \E body \in Bodies(job), tok_ok \in BOOLEAN :
          CallbackGetAiNextMove(job, body, tok_ok)

SpecGenmove == InitGenmove /\ [][NextGenmove]_vars

\* ------------------------------------------- every command, one at a time
\* The same chat with every handler that writes the session or a record:
\* moves, undo, reset, the two loads, the mode switches and the callbacks of
\* pending genmove jobs, each run to its end before the next one starts.
NextTurn ==
    \/ \E coord_text \in {T("A", 1), T("B", 1)}, spawned \in BOOLEAN :
          HandleBoardMove(coord_text, spawned, TRUE, NoFaults)
    \/ HandleUndoMove(TRUE)
    \/ HandleReset(TRUE)
    \/ HandleLoadGameById(GameB, TRUE)
    \/ \E move_count \in 1 .. MaxNewMoves :
          HandleLoadGameByIdWithMoves(GameB, move_count, TRUE)
    \/ \E flag \in BOOLEAN : HandleVsAi(flag, TRUE, TRUE)
    \/ \E job \in jobs : \E body \in Bodies(job) :
          CallbackGetAiNextMove(job, body, TRUE)

SpecTurn == InitGenmove /\ [][NextTurn]_vars

\* ------------------------------------- one coordinate, from chat to engine
\* The board of the deployed bot: GoBoard() has size 19, and the handlers
\* flip rows with the literal 18.
board_size == 19
top_row == 18

Alphabet == <<"A", "B", "C", "D", "E", "F", "G", "H", "I", "J", "K", "L", "M",
              "N", "O", "P", "Q", "R", "S", "T", "U", "V", "W", "X", "Y", "Z">>
ord(ch) == CHOOSE i \in DOMAIN Alphabet : Alphabet[i] = ch
chr(i) == Alphabet[i]

\* GoBoard().parse_coordinates
board_coordinates(text) ==
    IF ~(\E i \in DOMAIN col_labels : col_labels[i] = text.col)
    THEN None
    ELSE LET col == (CHOOSE i \in DOMAIN col_labels : col_labels[i] = text.col) - 1
             row == board_size - text.num
         IN  IF row \in 0 .. board_size - 1 /\ col \in 0 .. board_size - 1
             THEN <<row, col>>
             ELSE None

\* handle_board_move: the move of the new node, (sgf_row, sgf_col)
node_move(coords) == <<top_row - coords[1], coords[2]>>

\* restore_game_from_sgf_object: the cell of a move of the record
restored_cell(move) == <<top_row - move[1], move[2]>>

\* variant: the letter I is not skipped
gtp_col_WithI(sgf_col) == chr(ord("A") + sgf_col)

\* run_katago_gtp_next_move: the letter of a column of the record
gtp_col(sgf_col) ==
    LET ch == chr(ord("A") + sgf_col)
    IN  IF ord(ch) >= ord("I") THEN chr(ord(ch) + 1) ELSE ch

\* run_katago_gtp_next_move: the vertex of its play command
gtp_move(move) == T(gtp_col(move[2]), move[1] + 1)

\* every point of the board as it is typed
DisplayTexts == {T(col_labels[i], num) : i \in 1 .. board_size, num \in 1 .. board_size}

InitCoordinate ==
    /\ board = EmptyBoard
    /\ ko_point = None
    /\ rejected = NoCall
    /\ former = [pt |-> None, color |-> 0, retaken |-> FALSE]
    /\ sgf_game = <<>>
    /\ current_turn = 1
    /\ n_moves = 0
    /\ session = NoState
    /\ sgf_store = [g \in {} |-> <<>>]
    /\ jobs = {}
    /\ now = 0
    /\ sent = <<>>
    /\ op = NoOp
    /\ handlers = <<>>
    /\ auth = NoAuth
    /\ \E text \in DisplayTexts :
          review = [stage |-> "typed", text |-> text, coords |-> None, move |-> None,
                    restored |-> None, play |-> NoText]

\* the coordinate is parsed and recorded, the record replayed and sent to the
\* engine
PlayCoordinate ==
    /\ review.stage = "typed"
    /\ LET coords == board_coordinates(review.text)
           move == node_move(coords)
       IN  review' = [stage |-> "played", text |-> review.text, coords |-> coords,
                      move |-> move, restored |-> restored_cell(move),
                      play |-> gtp_move(move)]
    /\ UNCHANGED <<board, ko_point, rejected, former, sgf_game, current_turn, n_moves,
                   session, sgf_store, jobs, now, sent, op, handlers, auth>>

NextCoordinate == PlayCoordinate

SpecCoordinate == InitCoordinate /\ [][NextCoordinate]_vars

\* ------------------------------------------- the statistics of one move
\* Win rates are counted in 1/10000, percentages in tenths. The rates of the
\* engine taken here have no tie when they are rounded to a tenth.
Rates == {0, 3004, 3006, 5000, 10000}
Whole == 10000

\* round(x, 1) of a percentage, x in hundredths
round1(x) == IF x % 10 < 5 THEN x \div 10 ELSE x \div 10 + 1

\* w * 100 if current_player == "B" else (1 - w) * 100, in hundredths
percent(current_player, winrate) ==
    IF current_player = "B" THEN winrate ELSE Whole - winrate

\* one block of the engine's answer: rootInfo.currentPlayer, rootInfo.winrate,
\* nextRootInfo.winrate and the winrate of the moveInfo of the move played
\* (<<>> when the answer does not have them)
Response(current_player, winrate, next, move_rate) ==
    [currentPlayer |-> current_player, winrate |-> winrate, nextRootInfo |-> next,
     played |-> move_rate]

\* extract_move_stats: the two win rates it exposes
extract_move_stats(response) ==
    [winrate_before |-> round1(percent(response.currentPlayer, response.winrate)),
     winrate_after |->
        IF response.nextRootInfo # <<>>
        THEN <<round1(percent(response.currentPlayer, response.nextRootInfo[1]))>>
        ELSE IF response.played # <<>>
        THEN <<round1(percent(response.currentPlayer, response.played[1]))>>
        ELSE <<>>]

Optional(S) == {<<>>} \cup {<<x>> : x \in S}

InitStats ==
    /\ board = EmptyBoard
    /\ ko_point = None
    /\ rejected = NoCall
    /\ former = [pt |-> None, color |-> 0, retaken |-> FALSE]
    /\ sgf_game = <<>>
    /\ current_turn = 1
    /\ n_moves = 0
    /\ session = NoState
    /\ sgf_store = [g \in {} |-> <<>>]
    /\ jobs = {}
    /\ now = 0
    /\ sent = <<>>
    /\ op = NoOp
    /\ handlers = <<>>
    /\ auth = NoAuth
    /\ \E player \in {"B", "W"}, winrate \in Rates, next \in Optional(Rates),
          move_rate \in Optional({3004, 5000}), next_player \in {"B", "W"},
          next_winrate \in Rates :
          review = [stage |-> "answer",
                    blocks |-> <<Response(player, winrate, next, move_rate),
                                 Response(next_player, next_winrate, <<>>, <<>>)>>,
                    stats |-> <<>>]

\* convert_jsonl_to_move_stats over two consecutive blocks
ConvertStats ==
    /\ review.stage = "answer"
    /\ review' = [review EXCEPT !.stage = "stats",
                     !.stats = [i \in 1 .. 2 |-> extract_move_stats(review.blocks[i])]]
    /\ UNCHANGED <<board, ko_point, rejected, former, sgf_game, current_turn, n_moves,
                   session, sgf_store, jobs, now, sent, op, handlers, auth>>

NextStats == ConvertStats

SpecStats == InitStats /\ [][NextStats]_vars

\* --------------------------------------------- the answers of the engine
\* run_katago_gtp_next_move after the engine has ended: stdout is a sequence
\* of lines, each with its first character after strip() ("=", "?" or
\* anything else), the text behind it, and whether the stripped line holds
\* the word genmove.
MaxPlays == 2

Line(mark, text, genmove) == [mark |-> mark, text |-> text, genmove |-> genmove]
Blank == Line("", "", FALSE)

\* str.lower() on the answers taken here
move_lower(text) ==
    IF text = "PASS" THEN "pass" ELSE IF text = "Resign" THEN "resign" ELSE text

\* variant: only a pass is a special move
special_move_PassOnly(move) == move_lower(move) = "pass"
\* move.lower() in ["pass", "resign"]
special_move(move) == move_lower(move) \in {"pass", "resign"}

\* a value that `if value:` takes: neither None (<<>>) nor the empty string
given(opt) == opt # <<>> /\ opt[1] # ""

\* the indices of the lines that start with = or ?, in order
responses(lines) == {i \in DOMAIN lines : lines[i].mark \in {"=", "?"}}

\* the last line that holds genmove and does not start with =, or 0
last_genmove_line(lines) ==
    LET found == {i \in DOMAIN lines : lines[i].genmove /\ lines[i].mark # "="}
    IN  IF found = {} THEN 0 ELSE CHOOSE i \in found : \A j \in found : j <= i

\* the first response after the last genmove line: move and error_response
after_genmove(lines) ==
    LET later == {i \in responses(lines) : i > last_genmove_line(lines)}
        first == CHOOSE i \in later : \A j \in later : i <= j
    IN  IF last_genmove_line(lines) = 0 \/ later = {}
        THEN [move |-> <<>>, error_response |-> <<>>]
        ELSE IF lines[first].mark = "="
        THEN [move |-> <<lines[first].text>>, error_response |-> <<>>]
        ELSE [move |-> <<>>, error_response |-> <<lines[first].text>>]

\* the fallback: from the last response backwards, the first that is a
\* non-empty = response or a ? response
last_response(lines) ==
    LET stops == {i \in responses(lines) :
                     \/ lines[i].mark = "=" /\ lines[i].text # ""
                     \/ lines[i].mark = "?"}
        last == CHOOSE i \in stops : \A j \in stops : j <= i
    IN  IF stops = {}
        THEN [move |-> <<>>, error_response |-> <<>>]
        ELSE IF lines[last].mark = "="
        THEN [move |-> <<lines[last].text>>, error_response |-> <<>>]
        ELSE [move |-> <<>>, error_response |-> <<lines[last].text>>]

Failure(error) == [success |-> FALSE, move |-> <<>>, error |-> error]

\* run_katago_gtp_next_move from the end of the engine on: the exit code,
\* the response of genmove, the special moves
read_gtp_output(lines, return_code) ==
    LET direct == after_genmove(lines)
        found == IF ~given(direct.move) /\ ~given(direct.error_response)
                    /\ responses(lines) # {}
                 THEN LET back == last_response(lines)
                      IN  [move |-> IF back.move # <<>> THEN back.move ELSE direct.move,
                           error_response |-> IF back.error_response # <<>>
                                              THEN back.error_response
                                              ELSE direct.error_response]
                 ELSE direct
    IN  IF return_code # 0 THEN Failure("exit code")
        ELSE IF given(found.error_response) THEN Failure(found.error_response[1])
        ELSE IF ~given(found.move) THEN Failure("no move")
        ELSE IF special_move(found.move[1]) THEN Failure(found.move[1])
        ELSE [success |-> TRUE, move |-> found.move, error |-> ""]

\* what the engine writes for boardsize, clear_board, the play commands,
\* genmove and quit: one response each, followed by an empty line
RECURSIVE Spaced(_)
Spaced(answers) ==
    IF answers = <<>> THEN <<>> ELSE <<Head(answers), Blank>> \o Spaced(Tail(answers))

PlayAnswers == {Line("=", "", FALSE), Line("?", "illegal move", FALSE)}
GenmoveAnswers ==
    {Line("=", text, FALSE) : text \in {"D4", "Q16", "pass", "PASS", "resign", "Resign"}}
    \cup {Line("?", "", FALSE), Line("?", "illegal", FALSE),
          Line("?", "genmove needs a colour", TRUE)}

Stdout(plays, answer) ==
    Spaced(<<Line("=", "", FALSE), Line("=", "", FALSE)>> \o plays
           \o <<answer, Line("=", "", FALSE)>>)

InitGtp ==
    /\ board = EmptyBoard
    /\ ko_point = None
    /\ rejected = NoCall
    /\ former = [pt |-> None, color |-> 0, retaken |-> FALSE]
    /\ sgf_game = <<>>
    /\ current_turn = 1
    /\ n_moves = 0
    /\ session = NoState
    /\ sgf_store = [g \in {} |-> <<>>]
    /\ jobs = {}
    /\ now = 0
    /\ sent = <<>>
    /\ op = NoOp
    /\ handlers = <<>>
    /\ auth = NoAuth
    /\ \E n \in 0 .. MaxPlays : \E plays \in [1 .. n -> PlayAnswers] :
       \E answer \in GenmoveAnswers, return_code \in {0, 1} :
          review = [stage |-> "ended", lines |-> Stdout(plays, answer),
                    answer |-> answer, return_code |-> return_code,
                    result |-> Failure("")]

\* the output of the engine is read
ReadGtp ==
    /\ review.stage = "ended"
    /\ review' = [review EXCEPT !.stage = "read",
                     !.result = read_gtp_output(review.lines, review.return_code)]
    /\ UNCHANGED <<board, ko_point, rejected, former, sgf_game, current_turn, n_moves,
                   session, sgf_store, jobs, now, sent, op, handlers, auth>>

NextGtp == ReadGtp

SpecGtp == InitGtp /\ [][NextGtp]_vars

\* ----------------------------------------------- the worker's callbacks
\* The functions review and get_ai_next_move of the worker, from the spawn
\* to their return: the engine runs, then _notify_callback posts. A post
\* ends "ok", is "refused" (no request reached the server, the client raises)
\* or ends in "error" (the server received the request and answered 5xx, or
\* did not answer within the timeout: raise_for_status or the client raises).
PostOutcomes == {"ok", "refused", "error"}

Worker(kind) == [kind |-> kind, pc |-> "spawned", posted |-> <<>>, returns |-> ""]

\* the request reached the server
delivered(outcome) == outcome # "refused"

\* the body of the try block up to the callback: result.get("success"), or an
\* exception (no model file, download or upload failed)
RunEngine(i, result) ==
    /\ handlers[i].pc = "spawned"
    /\ handlers' = [handlers EXCEPT ![i].pc =
                       IF result = "success" THEN "notify_success"
                       ELSE IF result = "failed" THEN "notify_failed"
                       ELSE "except"]
    /\ UNCHANGED <<board, ko_point, rejected, former, sgf_game, current_turn, n_moves,
                   session, sgf_store, jobs, now, sent, op, auth, review>>

\* asyncio.run(_notify_callback(...)) inside the try block
NotifyCallback(i, outcome) ==
    /\ handlers[i].pc \in {"notify_success", "notify_failed"}
    /\ LET status == IF handlers[i].pc = "notify_success" THEN "success" ELSE "failed"
       IN  handlers' = [handlers EXCEPT
               ![i].posted = IF delivered(outcome) THEN Append(@, status) ELSE @,
               ![i].pc = IF outcome = "ok" THEN "returned" ELSE "except",
               ![i].returns = IF outcome = "ok" THEN status ELSE @]
    /\ UNCHANGED <<board, ko_point, rejected, former, sgf_game, current_turn, n_moves,
                   session, sgf_store, jobs, now, sent, op, auth, review>>

\* the except clause: it posts "failed" and swallows what that post raises
NotifyError(i, outcome) ==
    /\ handlers[i].pc = "except"
    /\ handlers' = [handlers EXCEPT
           ![i].posted = IF delivered(outcome) THEN Append(@, "failed") ELSE @,
           ![i].pc = "returned",
           ![i].returns = "failed"]
    /\ UNCHANGED <<board, ko_point, rejected, former, sgf_game, current_turn, n_moves,
                   session, sgf_store, jobs, now, sent, op, auth, review>>

InitWorker ==
    /\ board = EmptyBoard
    /\ ko_point = None
    /\ rejected = NoCall
    /\ former = [pt |-> None, color |-> 0, retaken |-> FALSE]
    /\ sgf_game = <<>>
    /\ current_turn = 1
    /\ n_moves = 0
    /\ session = NoState
    /\ sgf_store = [g \in {} |-> <<>>]
    /\ jobs = {}
    /\ now = 0
    /\ sent = <<>>
    /\ op = NoOp
    /\ auth = NoAuth
    /\ review = NoReview
    /\ handlers = <<Worker("review"), Worker("genmove")>>

NextWorker ==
    \E i \in DOMAIN handlers :
        \/ \E result \in {"success", "failed", "raised"} : RunEngine(i, result)
        \/ \E outcome \in PostOutcomes : NotifyCallback(i, outcome)
        \/ \E outcome \in PostOutcomes : NotifyError(i, outcome)

SpecWorker == InitWorker /\ [][NextWorker]_vars

\* ------------------------------- a coordinate and another command at once
\* handle_board_move runs beside a reset, a load of a stored game or a
\* "vs ai" of the same chat, each at the grain of its store calls.
Command(reply_token, pc) == [Idle(reply_token, T(pc, 0)) EXCEPT !.pc = pc]

\* reset_game_state: new_game_id, load_state_from_gcs
ResetLoad(i) ==
    /\ handlers[i].pc = "reset"
    /\ UNCHANGED raceIdle
    /\ handlers' = [handlers EXCEPT ![i] =
                       [@ EXCEPT !.game_id = new_game_id(now),
                                 !.existing_state = session, !.pc = "reset_save"]]
    /\ UNCHANGED <<session, sgf_store, jobs, sent, op, n_moves>>

\* reset_game_state: save_state_to_gcs
ResetSave(i) ==
    /\ handlers[i].pc = "reset_save"
    /\ UNCHANGED raceIdle
    /\ session' = Put(Put(handlers[i].existing_state, "game_id", handlers[i].game_id),
                      "current_turn", 1)
    /\ handlers' = [handlers EXCEPT ![i].pc = "reset_upload"]
    /\ UNCHANGED <<sgf_store, jobs, sent, op, n_moves>>

\* reset_game_state: upload_buffer of the empty record
ResetUpload(i) ==
    /\ handlers[i].pc = "reset_upload"
    /\ UNCHANGED raceIdle
    /\ sgf_store' = StorePut(sgf_store, handlers[i].game_id, <<>>)
    /\ handlers' = [handlers EXCEPT ![i].pc = "done"]
    /\ UNCHANGED <<session, jobs, sent, op, n_moves>>

\* handle_load_game_by_id(game_id): file_exists, download_file, the replay
LoadRead(i, game_id) ==
    /\ handlers[i].pc = "load"
    /\ UNCHANGED raceIdle
    /\ handlers' = [handlers EXCEPT ![i] =
                       IF game_id \in DOMAIN sgf_store
                       THEN [@ EXCEPT !.game_id = game_id,
                                      !.state = restored_state(sgf_store[game_id]),
                                      !.pc = "load_state"]
                       ELSE [@ EXCEPT !.pc = "done"]]
    /\ UNCHANGED <<session, sgf_store, jobs, sent, op, n_moves>>

\* handle_load_game_by_id: load_state_from_gcs
LoadExistingMode(i) ==
    /\ handlers[i].pc = "load_state"
    /\ UNCHANGED raceIdle
    /\ handlers' = [handlers EXCEPT ![i] =
                       [@ EXCEPT !.existing_state = session, !.pc = "load_save"]]
    /\ UNCHANGED <<session, sgf_store, jobs, sent, op, n_moves>>

\* handle_load_game_by_id: save_state_to_gcs
LoadSave(i) ==
    /\ handlers[i].pc = "load_save"
    /\ UNCHANGED raceIdle
    /\ session' = Put(Put(Put(NoState, "game_id", handlers[i].game_id),
                          "current_turn", handlers[i].state.current_turn),
                      "vs_ai_mode", loaded_vs_ai_mode(handlers[i].existing_state))
    /\ handlers' = [handlers EXCEPT ![i].pc = "done"]
    /\ UNCHANGED <<sgf_store, jobs, sent, op, n_moves>>

\* enable_vs_ai_mode: load_state_from_gcs
VsAiLoad(i) ==
    /\ handlers[i].pc = "vs_ai"
    /\ UNCHANGED raceIdle
    /\ handlers' = [handlers EXCEPT ![i] =
                       [@ EXCEPT !.existing_state = session, !.pc = "vs_ai_save"]]
    /\ UNCHANGED <<session, sgf_store, jobs, sent, op, n_moves>>

\* enable_vs_ai_mode: save_state_to_gcs
VsAiSave(i) ==
    /\ handlers[i].pc = "vs_ai_save"
    /\ UNCHANGED raceIdle
    /\ session' = set_vs_ai_mode(handlers[i].existing_state, TRUE)
    /\ handlers' = [handlers EXCEPT ![i].pc = "done"]
    /\ UNCHANGED <<sgf_store, jobs, sent, op, n_moves>>

\* A coordinate and one other command reach a chat that is new or holds a
\* game; op.before keeps the game as it was.
InitMix ==
    /\ board = EmptyBoard
    /\ ko_point = None
    /\ rejected = NoCall
    /\ former = [pt |-> None, color |-> 0, retaken |-> FALSE]
    /\ sgf_game = <<>>
    /\ current_turn = 1
    /\ n_moves = 0
    /\ jobs = {}
    /\ now = GameB + 1
    /\ sent = <<>>
    /\ \E coord_text \in PlayTexts, pc \in {"reset", "load", "vs_ai"} :
          handlers = <<Idle(1, coord_text), Command(2, pc)>>
    /\ auth = NoAuth
    /\ review = NoReview
    /\ \/ /\ session = NoState
          /\ sgf_store = [g \in {} |-> <<>>]
          /\ op = [NoOp EXCEPT !.before = <<NewGame>>]
       \/ \E seed \in {KoSeed, SuicideSeed}, mode \in {"unset", "off"} :
           \E g \in {SeedGame(seed)} :
             LET meta == merged_state(NoState, GameA, g.current_turn)
             IN  /\ Len(g.sgf_game) = Len(seed)
                 /\ sgf_store = StorePut(StorePut([x \in {} |-> <<>>], GameA, g.sgf_game),
                                         GameB, OtherGame)
                 /\ session = IF mode = "unset" THEN meta
                              ELSE set_vs_ai_mode(meta, FALSE)
                 /\ op = [NoOp EXCEPT !.before = <<g>>]

NextMix ==
    \/ \E i \in DOMAIN handlers : LoadState(i)
    \/ \E i \in DOMAIN handlers : ReadSgf(i)
    \/ \E i \in DOMAIN handlers : GetGameId(i)
    \/ \E i \in DOMAIN handlers : NewGameId(i)
    \/ \E i \in DOMAIN handlers : UploadSgf(i)
    \/ \E i \in DOMAIN handlers : LoadExisting(i)
    \/ \E i \in DOMAIN handlers : SaveState(i)
    \/ \E i \in DOMAIN handlers, spawned \in BOOLEAN : Reply(i, spawned)
    \/ \E i \in DOMAIN handlers : ResetLoad(i)
    \/ \E i \in DOMAIN handlers : ResetSave(i)
    \/ \E i \in DOMAIN handlers : ResetUpload(i)
    \/ \E i \in DOMAIN handlers : LoadRead(i, GameB)
    \/ \E i \in DOMAIN handlers : LoadExistingMode(i)
    \/ \E i \in DOMAIN handlers : LoadSave(i)
    \/ \E i \in DOMAIN handlers : VsAiLoad(i)
    \/ \E i \in DOMAIN handlers : VsAiSave(i)

SpecMix == InitMix /\ [][NextMix]_vars

\* ------------------------------------------- rules of Go, stated directly
Adjacent(p, q) ==
    \/ (p[1] = q[1] /\ (p[2] = q[2] + 1 \/ q[2] = p[2] + 1))
    \/ (p[2] = q[2] /\ (p[1] = q[1] + 1 \/ q[1] = p[1] + 1))

RECURSIVE Grow(_, _, _)
Grow(b, color, S) ==
    LET S2 == S \cup {q \in Points : b[q] = color /\ \E s \in S : Adjacent(s, q)}
    IN  IF S2 = S THEN S ELSE Grow(b, color, S2)

\* the stones connected to the stone on p, and the empty points they touch
GroupOf(b, p) == Grow(b, b[p], {p})
LibertiesOf(b, G) == {q \in Points : b[q] = 0 /\ \E s \in G : Adjacent(s, q)}

TextOf(p) == [col |-> col_labels[p[2] + 1], num |-> Size - p[1]]

\* the position after a stone of `color` is put on the empty point p and the
\* opposite groups it leaves without liberty are taken off
Dead(b, p, color) ==
    LET b1 == [b EXCEPT ![p] = color]
    IN  {q \in Points : /\ b1[q] # 0 /\ b1[q] # color
                        /\ LibertiesOf(b1, GroupOf(b1, q)) = {}}
AfterCapture(b, p, color) ==
    LET b1 == [b EXCEPT ![p] = color]
        dead == Dead(b, p, color)
    IN  [q \in Points |-> IF q \in dead THEN 0 ELSE b1[q]]
Suicide(b, p, color) ==
    /\ LibertiesOf(AfterCapture(b, p, color), GroupOf(AfterCapture(b, p, color), p)) = {}
    /\ Dead(b, p, color) = {}

\* C1: from the empty board, after any sequence of place_stone calls (any
\* colours, accepted or rejected), every group of stones on the board has at
\* least one liberty.
C1_GroupsHaveLiberty ==
    \A p \in Points : board[p] # 0 => LibertiesOf(board, GroupOf(board, p)) # {}

\* a capture has happened, a placement was refused, and a group of two stones
\* is down to its last liberty
C1_Witness ==
    /\ former.pt # None
    /\ rejected.msg = "suicide"
    /\ \E p \in Points : /\ board[p] # 0
                         /\ Cardinality(GroupOf(board, p)) >= 2
                         /\ Cardinality(LibertiesOf(board, GroupOf(board, p))) = 1

\* C2: a placement on an empty point that is not the ko-point is refused as
\* suicide exactly when, once the captured opposite groups are removed, the
\* placed stone's group has no liberty and no opposite stone was captured; the
\* refusal leaves the board (and the ko-point) as they were.
C2_SuicideExactly ==
    /\ \A text \in Texts, color \in Colors :
          LET p == parse_coordinates(text)
              res == place_stone(board, ko_point, text, color)
          IN  (p # None /\ board[p] = 0 /\ p # ko_point) =>
                /\ (~res.ok /\ res.msg = "suicide") <=> Suicide(board, p, color)
                /\ res.ok <=> ~Suicide(board, p, color)
                /\ ~res.ok => (res.board = board /\ res.ko_point = ko_point)
    /\ rejected.msg = "suicide" =>
          /\ board[rejected.pt] = 0
          /\ rejected.pt # ko_point
          /\ Suicide(board, rejected.pt, rejected.color)

\* a placement has been refused as suicide next to stones of both colours
C2_Witness ==
    /\ rejected.msg = "suicide"
    /\ \E q \in Points : Adjacent(q, rejected.pt) /\ board[q] = rejected.color

\* C3: an accepted place_stone sets the ko-point to the captured coordinate
\* when it captured exactly one opposite stone and the placed stone's group
\* then has exactly one liberty; every other accepted place_stone clears the
\* ko-point; the ko-point is never more than one coordinate.
C3_Step ==
    board' # board =>
        LET p == CHOOSE q \in Points : board[q] = 0 /\ board'[q] # 0
            taken == {q \in Points : board[q] # 0 /\ board'[q] = 0}
            libs == LibertiesOf(board', GroupOf(board', p))
        IN  ko_point' = IF Cardinality(taken) = 1 /\ Cardinality(libs) = 1
                        THEN CHOOSE q \in taken : TRUE
                        ELSE None
C3_KoPoint == [](ko_point \in Points \cup {None}) /\ [][C3_Step]_vars

\* a move has just taken one stone and set the ko-point on its square
C3_Witness ==
    /\ ko_point # None
    /\ board[ko_point] = 0
    /\ rejected = NoCall

\* C4 (as first stated): a placement on the ko-point is refused on the move
\* that follows; after one other move has been accepted elsewhere the same
\* placement on the former ko-point is accepted.
C4_RetryAccepted ==
    (former.pt # None /\ former.color # 0) =>
        /\ place_stone(board, ko_point, TextOf(former.pt), former.color).ok
        /\ ~(rejected.pt = former.pt /\ rejected.color = former.color)

\* C4 (amended): a placement on the ko-point is refused on the move that
\* follows; after one other move has been accepted elsewhere the same
\* placement is no longer refused as ko and the point is still empty: it is
\* accepted unless it is suicide.
C4_KoLastsOneMove ==
    /\ ko_point # None =>
          \A color \in Colors :
              LET res == place_stone(board, ko_point, TextOf(ko_point), color)
              IN  ~res.ok /\ res.msg = "ko" /\ res.board = board
                  /\ res.ko_point = ko_point
    /\ rejected.msg = "ko" => rejected.pt = ko_point
    /\ former.pt # None =>
          \A color \in Colors :
              LET res == place_stone(board, ko_point, TextOf(former.pt), color)
              IN  /\ board[former.pt] = 0
                  /\ res.msg \in {"placed", "suicide"}
                  /\ res.ok <=> ~Suicide(board, former.pt, color)

\* the placement refused on the ko-point was retried one move later and accepted
C4_Witness == former.retaken /\ former.color # 0

\* C6: whatever record was produced by accepted place_stone moves from the
\* empty board, replaying it with restore_game_from_sgf_object gives the same
\* board, the same ko-point and the same player to move as the board on which
\* place_stone was applied to each move in order.
C6_ReplayAgrees ==
    \E restored \in {restore_game_from_sgf_object(sgf_game)} :
        /\ restored.board = board
        /\ restored.ko_point = ko_point
        /\ restored.current_turn = current_turn

\* a recorded game whose last move, played after the start, captured and set
\* the ko-point
C6_Witness ==
    /\ n_moves > 0
    /\ ko_point # None
    /\ \E p \in Points : board[p] = 0 /\ p # ko_point
    /\ restore_game_from_sgf_object(sgf_game).ko_point = ko_point

\* ------------------------------------------------ claims about the chat
\* the position a handler would work on, read back from the store
Position(state_meta, store) ==
    LET state == get_game_state(state_meta, store, now).state
    IN  <<state.board, state.ko_point>>

OneHint(bundles, token) ==
    /\ Len(bundles) = 1
    /\ bundles[1].via = "reply"
    /\ bundles[1].token = token
    /\ Len(bundles[1].messages) = 1
    /\ bundles[1].messages[1].type = "text"
    /\ bundles[1].messages[1].tag = "hint"

\* the handler that just ran refused a coordinate (occupied, ko, suicide) or
\* refused to undo on a record with no move
Refused(o, bundles) ==
    \/ /\ o.name = "move"
       /\ o.outcome = "rejected"
       /\ Len(bundles) = 1
       /\ bundles[1].messages[1].why \in {"occupied", "ko", "suicide"}
    \/ /\ o.name = "undo"
       /\ o.outcome = "root"

\* C5 as stated: a refused coordinate, or an undo on a record with no move,
\* sends one short hint and leaves the stored record, the stored session, the
\* board and the ko-point unchanged.
C5_RefusalChangesNothing ==
    [][Refused(op', sent') =>
          /\ OneHint(sent', op'.token)
          /\ sgf_store' = sgf_store
          /\ session' = session
          /\ Position(session', sgf_store') = Position(session, sgf_store)]_vars

\* C5: a refused coordinate, or an undo on a record with no move, sends one
\* short hint and leaves the stored record, the board and the ko-point
\* unchanged; the stored session is unchanged too, except that an undo in a chat
\* whose session has no game id yet stores a new game id with black to move,
\* keeping the other session fields.
C5_RefusalKeepsGame ==
    [][Refused(op', sent') =>
          /\ OneHint(sent', op'.token)
          /\ sgf_store' = sgf_store
          /\ Position(session', sgf_store') = Position(session, sgf_store)
          /\ IF op'.name = "undo" /\ ~Has(session, "game_id")
             THEN /\ DOMAIN session' = DOMAIN session \cup {"game_id", "current_turn"}
                  /\ session'["game_id"] = now
                  /\ session'["current_turn"] = 1
                  /\ \A k \in DOMAIN session : session'[k] = session[k]
             ELSE session' = session]_vars

\* a coordinate was just refused because of ko, in a chat with a stored game
C5_Witness ==
    /\ op.name = "move"
    /\ op.outcome = "rejected"
    /\ sent[1].messages[1].why = "ko"
    /\ Has(session, "game_id")
    /\ session["game_id"] \in DOMAIN sgf_store

\* the job a callback step answers
Answered == CHOOSE j \in jobs : j \notin jobs'

\* the stored session has the engine as opponent
ModeOn(state_meta) == Has(state_meta, "vs_ai_mode") /\ state_meta["vs_ai_mode"] = TRUE

\* a user's coordinate was accepted while the stored session had the engine
\* as opponent
UserMoveVsEngine ==
    /\ op'.name = "move"
    /\ op'.outcome # "rejected"
    /\ ModeOn(session)

EngineBundle(messages, job) ==
    /\ Len(messages) = 4
    /\ messages[1] = ImageMessage(job.user_board_image_url)
    /\ messages[2].type = "text" /\ messages[2].tag = "ai_played"
    /\ messages[2].arg = op'.arg
    /\ messages[3].type = "image" /\ messages[3].url.kind = "board_ai"
    /\ messages[3].url # job.user_board_image_url
    /\ messages[4].type = "text" /\ messages[4].tag = "your_turn"

\* C7 as stated: against the engine an accepted user move sends nothing from
\* the webhook handler, and the successful callback sends exactly one bundle,
\* with the original reply token: the user's board image, the text naming the
\* engine's move, the engine's board image, the text "your turn".
C7_OneBundleByReply ==
    [][/\ UserMoveVsEngine =>
              /\ sent' = <<>>
              /\ \E j \in jobs' \ jobs : j.reply_token = op'.token
       /\ (op'.name = "callback" /\ op'.outcome = "placed") =>
              /\ Len(sent') = 1
              /\ sent'[1].via = "reply"
              /\ sent'[1].token = Answered.reply_token
              /\ EngineBundle(sent'[1].messages, Answered)]_vars

\* C7: against the engine an accepted user move whose genmove job is spawned
\* sends nothing from the webhook handler (when the job cannot be spawned the
\* handler replies with the user's board image), and the successful callback
\* sends exactly one bundle, with the original reply token when it is still
\* valid and by push when it has expired: the user's board image, the text
\* naming the engine's move, the engine's board image, the text "your turn".
C7_OneBundle ==
    [][/\ UserMoveVsEngine =>
              IF op'.spawned
              THEN /\ sent' = <<>>
                   /\ \E j \in jobs' \ jobs : j.reply_token = op'.token
              ELSE /\ Len(sent') = 1
                   /\ sent'[1].via = "reply"
                   /\ sent'[1].token = op'.token
                   /\ Len(sent'[1].messages) = 1
                   /\ sent'[1].messages[1].type = "image"
                   /\ sent'[1].messages[1].url.kind = "board"
       /\ (op'.name = "callback" /\ op'.outcome = "placed") =>
              /\ Len(sent') = 1
              /\ IF op'.tok_ok
                 THEN sent'[1].via = "reply" /\ sent'[1].token = Answered.reply_token
                 ELSE sent'[1].via = "push"
              /\ EngineBundle(sent'[1].messages, Answered)]_vars

\* the engine's move was just placed and announced with the reply token of the
\* user's move
C7_Witness ==
    /\ op.name = "callback"
    /\ op.outcome = "placed"
    /\ op.tok_ok
    /\ Len(sent) = 1
    /\ sent[1].via = "reply"
    /\ Len(sent[1].messages) = 4

\* C8: a genmove that fails (failed callback, no move, pass or resign, a move
\* place_stone rejects) sends exactly one bundle, the user's board image then
\* an error text, with the reply token if it is still valid and by push
\* otherwise; the callback writes no record, so a record not touched since the
\* user's move still ends with that move.
C8_FailureBundle ==
    [][(op'.name = "callback" /\ op'.outcome # "placed") =>
          /\ Len(sent') = 1
          /\ IF op'.tok_ok
             THEN sent'[1].via = "reply" /\ sent'[1].token = Answered.reply_token
             ELSE sent'[1].via = "push"
          /\ Len(sent'[1].messages) = 2
          /\ sent'[1].messages[1] = ImageMessage(Answered.user_board_image_url)
          /\ sent'[1].messages[2].type = "text"
          /\ sent'[1].messages[2].tag = "ai_error"
          /\ sgf_store' = sgf_store
          /\ LET job == Answered
                 before == IF job.game_id \in DOMAIN sgf_store
                           THEN sgf_store[job.game_id] ELSE <<>>
                 after == IF job.game_id \in DOMAIN sgf_store'
                          THEN sgf_store'[job.game_id] ELSE <<>>
             IN  before = job.record =>
                     /\ Len(after) = Len(job.record)
                     /\ after[Len(after)].color = color_code(Flip(job.current_turn))]_vars

\* the engine's move was just rejected by place_stone after the reply token
\* had expired, and the record still ends with the user's move
C8_Witness ==
    /\ op.name = "callback"
    /\ op.outcome = "rejected"
    /\ ~op.tok_ok
    /\ Len(sent) = 1
    /\ sent[1].via = "push"
    /\ op.game_id \in DOMAIN sgf_store
    /\ Len(sgf_store[op.game_id]) > 0

\* a move handler that persists game_id and current_turn just ran
Persisted(o) ==
    \/ o.name = "move" /\ o.outcome # "rejected"
    \/ o.name = "undo" /\ o.outcome = "undone"
    \/ o.name = "callback" /\ o.outcome = "placed"

\* C9: when the stored session has the engine as opponent and a move handler
\* persists game_id and current_turn, the session read back still has the
\* engine as opponent.
C9_ModeSurvivesSave ==
    [][(ModeOn(session) /\ Persisted(op')) =>
          /\ Has(session', "game_id")
          /\ Has(session', "current_turn")
          /\ ModeOn(session')]_vars

\* the first move of a chat that had switched the engine on before it had a
\* game id
C9_Witness ==
    /\ op.name = "move"
    /\ op.outcome = "dispatched"
    /\ ModeOn(session)
    /\ Get(session, "game_id", NoGame) = now

\* C10: when the engine is the opponent and "load game_X" is handled for an
\* existing record game_X, the stored session afterwards has the engine as
\* opponent and game_id game_X.
C10_LoadKeepsMode ==
    [][(/\ ModeOn(session)
        /\ op'.name = "load"
        /\ op'.game_id # NoGame
        /\ op'.game_id \in DOMAIN sgf_store) =>
          /\ ModeOn(session')
          /\ Get(session', "game_id", NoGame) = op'.game_id]_vars

\* the other game was just loaded with the engine as opponent
C10_Witness ==
    /\ op.name = "load"
    /\ op.outcome = "loaded"
    /\ op.game_id = GameB
    /\ ModeOn(session)
    /\ Get(session, "game_id", NoGame) = GameB

\* ------------------------------------------- claims about the chat's games
\* the game ids the chat has used so far: no record is ever deleted
UsedIds(state_meta, store) ==
    DOMAIN store \cup (IF Has(state_meta, "game_id") THEN {state_meta["game_id"]} ELSE {})

SameMode(before, after) ==
    /\ Has(after, "vs_ai_mode") = Has(before, "vs_ai_mode")
    /\ Has(before, "vs_ai_mode") => after["vs_ai_mode"] = before["vs_ai_mode"]

\* C11 as stated: after "reset" the stored session points to a game id the chat
\* never used before, the record stored under it has no move, the session's
\* current_turn is 1 (black), and the engine-opponent flag is as it was.
C11_ResetNewGame ==
    [][op'.name = "reset" =>
          /\ Has(session', "game_id")
          /\ session'["game_id"] \notin UsedIds(session, sgf_store)
          /\ session'["game_id"] \in DOMAIN sgf_store'
          /\ sgf_store'[session'["game_id"]] = <<>>
          /\ session'["current_turn"] = 1
          /\ SameMode(session, session')]_vars

\* C11, what holds: after "reset" the stored session points to the game id made
\* from the clock, the record stored under it has no move, current_turn is 1
\* and the engine-opponent flag is as it was.
C11_ResetFreshRecord ==
    [][op'.name = "reset" =>
          /\ Has(session', "game_id")
          /\ session'["game_id"] = now
          /\ session'["game_id"] \in DOMAIN sgf_store'
          /\ sgf_store'[session'["game_id"]] = <<>>
          /\ session'["current_turn"] = 1
          /\ SameMode(session, session')]_vars

\* a game with moves was reset with the engine as opponent, a second or more
\* after the game began
C11_Witness ==
    /\ op.name = "reset"
    /\ ModeOn(session)
    /\ session["game_id"] = GameB + 2
    /\ sgf_store[session["game_id"]] = <<>>
    /\ Len(sgf_store[GameA]) > 0

\* the step is a "load game_A N" with 1 <= N <= M, M the moves of game_A
LoadsFirstMoves ==
    /\ op'.name = "load_n"
    /\ op'.game_id \in DOMAIN sgf_store
    /\ op'.arg.num \in 1 .. Len(sgf_store[op'.game_id])

\* C12 as stated: "load game_A N" with 1 <= N <= M stores, under a game id the
\* chat never used before, a record with the root properties of game_A and
\* exactly its first N moves in order, makes it the session's game, and sets
\* current_turn to 1 if the N-th move was White, else 2.
C12_LoadFirstMoves ==
    [][LoadsFirstMoves =>
          LET source == sgf_store[op'.game_id]
              N == op'.arg.num
          IN  /\ Has(session', "game_id")
              /\ session'["game_id"] \notin UsedIds(session, sgf_store)
              /\ session'["game_id"] \in DOMAIN sgf_store'
              /\ sgf_store'[session'["game_id"]] = SubSeq(source, 1, N)
              /\ copied_root(sgf_root) = sgf_root
              /\ session'["current_turn"] = IF source[N].color = "w" THEN 1 ELSE 2]_vars

\* C12, what holds: the same, under the game id made from the clock.
C12_LoadFirstMovesStored ==
    [][LoadsFirstMoves =>
          LET source == sgf_store[op'.game_id]
              N == op'.arg.num
          IN  /\ Has(session', "game_id")
              /\ session'["game_id"] = now
              /\ session'["game_id"] \in DOMAIN sgf_store'
              /\ sgf_store'[session'["game_id"]] = SubSeq(source, 1, N)
              /\ copied_root(sgf_root) = sgf_root
              /\ session'["current_turn"] = IF source[N].color = "w" THEN 1 ELSE 2]_vars

\* the first move of a longer game was just loaded as a new game, black's move
\* being the last one kept
C12_Witness ==
    /\ op.name = "load_n"
    /\ op.outcome = "loaded"
    /\ op.game_id = GameA
    /\ op.arg.num = 1
    /\ Len(sgf_store[GameA]) > 1
    /\ session["game_id"] \notin {GameA, GameB}
    /\ session["current_turn"] = 2
    /\ Len(sgf_store[session["game_id"]]) = 1

\* a reset, or a load of the first N moves, that allocates a game id
Allocates ==
    \/ op'.name = "reset"
    \/ op'.name = "load_n" /\ op'.outcome = "loaded"

\* C13 as stated: every reset and every load of the first N moves allocates a
\* game id different from every game id the chat already used, so the record
\* stored under an earlier game id is never overwritten, emptied or deleted.
C13_FreshGameId ==
    [][Allocates =>
          /\ session'["game_id"] \notin UsedIds(session, sgf_store)
          /\ \A g \in DOMAIN sgf_store :
                g \in DOMAIN sgf_store' /\ sgf_store'[g] = sgf_store[g]]_vars

\* C13, what holds: the records of game ids made in earlier seconds are kept.
C13_EarlierSecondsKept ==
    [][Allocates =>
          \A g \in DOMAIN sgf_store \ {now} :
                g \in DOMAIN sgf_store' /\ sgf_store'[g] = sgf_store[g]]_vars

\* a reset allocated a game id while records of two earlier games were stored
C13_Witness ==
    /\ op.name = "reset"
    /\ op.game_id = GameB + 1
    /\ {GameA, GameB, GameB + 1} \subseteq DOMAIN sgf_store
    /\ Len(sgf_store[GameA]) > 0
    /\ Len(sgf_store[GameB]) > 0
    /\ sgf_store[GameB + 1] = <<>>

\* C14: "undo" on a record with n >= 1 moves stores, under the same game id,
\* the record with exactly its first n-1 moves; so an accepted move immediately
\* followed by "undo" restores the stored record, the replayed board, the
\* ko-point and current_turn to what they were before the move.
C14_UndoRemovesLastMove ==
    [][(/\ op'.name = "undo"
        /\ Has(session, "game_id")
        /\ session["game_id"] \in DOMAIN sgf_store
        /\ Len(sgf_store[session["game_id"]]) >= 1) =>
          LET game_id == session["game_id"]
              record == sgf_store[game_id]
              undone == get_game_state(session', sgf_store', now).state
          IN  /\ op'.outcome = "undone"
              /\ session'["game_id"] = game_id
              /\ DOMAIN sgf_store' = DOMAIN sgf_store
              /\ sgf_store'[game_id] = SubSeq(record, 1, Len(record) - 1)
              /\ (op.name = "move" /\ op.outcome # "rejected") =>
                    /\ sgf_store'[game_id] = op.before[1].sgf_game
                    /\ undone.sgf_game = op.before[1].sgf_game
                    /\ undone.board = op.before[1].board
                    /\ undone.ko_point = op.before[1].ko_point
                    /\ undone.current_turn = op.before[1].current_turn
                    /\ session'["current_turn"] = op.before[1].current_turn]_vars

\* a stone played on the six-move game, by the user or by the engine, was
\* just taken back: the record has six moves again and no ko-point is set
C14_Witness ==
    /\ op.name = "undo"
    /\ op.outcome = "undone"
    /\ n_moves = 2
    /\ Len(sgf_store[session["game_id"]]) = Len(KoSeed)
    /\ Position(session, sgf_store)[2] = None
    /\ \E p \in Points : Position(session, sgf_store)[1][p] = 2

\* both handlers have returned
Quiet == \A i \in DOMAIN handlers : handlers[i].pc = "done"

\* the node is the coordinate handler i was given, and handler i recorded it
NodeOf(node, i) ==
    /\ handlers[i].state.ok
    /\ LET coords == parse_coordinates(handlers[i].coord_text)
       IN  node.row = (Size - 1) - coords[1] /\ node.col = coords[2]
    /\ node.color \in {"b", "w"}

\* C15: when two coordinates of one chat are handled at once, in every
\* interleaving of their store calls the record stored in the end is the
\* initial record followed by one of the two moves or by both (never a mixture,
\* never part of a record), and replaying it gives a board on which every group
\* has a liberty.
C15_RaceKeepsRecord ==
    Quiet =>
        LET initial == op.before[1].sgf_game
            game_id == Get(session, "game_id", NoGame)
            final == IF game_id \in DOMAIN sgf_store THEN sgf_store[game_id] ELSE <<>>
            replayed == restore_game_from_sgf_object(final).board
            added == Len(initial) + 1 .. Len(final)
        IN  /\ Len(final) >= Len(initial)
            /\ SubSeq(final, 1, Len(initial)) = initial
            /\ Len(final) <= Len(initial) + 2
            /\ (\E i \in DOMAIN handlers : handlers[i].state.ok) => Len(final) > Len(initial)
            /\ \E who \in [added -> DOMAIN handlers] :
                  /\ \A k \in added : NodeOf(final[k], who[k])
                  /\ \A k, l \in added : k # l => who[k] # who[l]
            /\ \A p \in Points :
                  replayed[p] # 0 => LibertiesOf(replayed, GroupOf(replayed, p)) # {}

\* both coordinates were recorded, one after the other, in a chat that was new:
\* the second handler read the record the first one had stored
C15_Witness ==
    /\ Quiet
    /\ op.before[1].sgf_game = <<>>
    /\ Has(session, "game_id")
    /\ session["game_id"] \in DOMAIN sgf_store
    /\ Len(sgf_store[session["game_id"]]) = 2

\* ---------------------------------------------- claims about failing calls
\* the step is a webhook request handled by one of the command handlers
WebhookRequest == op'.name \in {"move", "undo", "load", "load_n", "reset", "vs_ai", "vs_free"}

\* C16 as stated: the webhook answers 200 to every request, also when a
\* handler, a store call or a messaging call raises.
C16_AlwaysOk ==
    [][WebhookRequest => op'.http = 200]_vars

\* C16, what holds: the webhook answers 200 when the reply token is valid, also
\* when file_exists raises in get_game_state; it answers 500 exactly when the
\* handler replied with an expired token.
C16_OkUnlessReplyRaises ==
    [][WebhookRequest =>
          /\ op'.http \in {200, 500}
          /\ op'.http = 500 <=> (~op'.tok_ok /\ op'.outcome # "dispatched")]_vars

\* file_exists raised while a coordinate was handled: the handler replied with
\* an error text and the webhook answered 200
C16_Witness ==
    /\ op.name = "move"
    /\ op.outcome = "error"
    /\ op.http = 200
    /\ Len(sent) = 1

\* C18 as stated: when the reply token has expired as a command handler sends
\* its response, the response is delivered by push and no error reaches the
\* user or the webhook's caller.
C18_PushWhenExpired ==
    [][(WebhookRequest /\ ~op'.tok_ok /\ op'.outcome # "dispatched") =>
          /\ Len(sent') = 1
          /\ sent'[1].via = "push"
          /\ Len(sent'[1].messages) >= 1
          /\ op'.http = 200]_vars

\* a read of get_game_state failed with an error while the coordinate of this
\* step was handled, in a chat whose session names a game with a stored record
\* and whose reply token is valid
ReadFailed ==
    /\ op'.name = "move"
    /\ op'.tok_ok
    /\ Has(session, "game_id")
    /\ session["game_id"] \in DOMAIN sgf_store
    /\ op'.reads.state = "error" \/ op'.reads.sgf # "ok"

\* C19 as stated, for a read that ends with an error: the user receives an
\* error message and the record stored under the session's game id is not
\* replaced.
C19_ReadErrorSurfaced ==
    [][ReadFailed =>
          /\ Len(sent') = 1
          /\ sent'[1].messages[1].type = "text"
          /\ sent'[1].messages[1].tag = "error"
          /\ sgf_store'[session["game_id"]] = sgf_store[session["game_id"]]]_vars

\* C19, what holds: when file_exists raises, the user receives an error text
\* (if the reply token is valid) and nothing is written.
C19_ExistsErrorSurfaced ==
    [][(op'.name = "move" /\ op'.outcome = "error") =>
          /\ op'.tok_ok => /\ Len(sent') = 1
                           /\ sent'[1].messages[1].tag = "error"
          /\ sgf_store' = sgf_store
          /\ session' = session]_vars

\* file_exists raised while a coordinate was handled in a game with moves
C19_Witness ==
    /\ op.name = "move"
    /\ op.outcome = "error"
    /\ op.reads.sgf = "exists_error"
    /\ Has(session, "game_id")
    /\ session["game_id"] \in DOMAIN sgf_store
    /\ Len(sgf_store[session["game_id"]]) > 0
    /\ Len(sent) = 1
    /\ sent[1].messages[1].tag = "error"

\* the platform calls send_message has made that delivered the list
Delivered(calls) == {k \in DOMAIN calls : calls[k].status = 200}
Pushes(calls) == {k \in DOMAIN calls : calls[k].via = "push"}

\* C17: send_message delivers a message list by exactly one platform call: a
\* reply when a token is present and the reply succeeds, a push when the token
\* is empty or the reply fails with status 400 or 410; it never both replies
\* successfully and pushes the same messages.
C17_OneDelivery ==
    LET h == handlers[1]
        calls == h.calls
        fell_back == /\ Len(calls) >= 1
                     /\ calls[1].via = "reply"
                     /\ calls[1].status \in {400, 410}
    IN  /\ Cardinality(Delivered(calls)) <= 1
        /\ Len(sent) = Cardinality(Delivered(calls))
        /\ \A k \in DOMAIN calls : calls[k].messages = h.messages
        /\ Cardinality({k \in DOMAIN calls : calls[k].via = "reply"}) <= 1
        /\ h.pc = "returned" =>
              /\ Cardinality(Delivered(calls)) = 1
              /\ sent = <<send_message(h.reply_token, h.result, h.messages)>>
        /\ (Len(calls) >= 1 /\ calls[1].via = "reply" /\ calls[1].status = 200) =>
              /\ h.reply_token # 0
              /\ h.pc = "returned"
              /\ calls = <<[via |-> "reply", token |-> h.reply_token,
                            messages |-> h.messages, status |-> 200]>>
              /\ sent = <<reply_message(h.reply_token, h.messages)>>
        /\ \A k \in Pushes(calls) :
              \/ h.reply_token = 0 /\ k = 1
              \/ h.reply_token # 0 /\ k = 2 /\ fell_back
        /\ (h.pc \in {"returned", "raised"} /\ (h.reply_token = 0 \/ fell_back)) =>
              /\ Cardinality(Pushes(calls)) = 1
              /\ h.pc = "returned" => sent = <<push_message(h.messages)>>

\* a reply failed with 410 and the list of two messages was then pushed
C17_Witness ==
    /\ handlers[1].pc = "returned"
    /\ Len(handlers[1].calls) = 2
    /\ handlers[1].calls[1].status = 410
    /\ Len(handlers[1].messages) = 2
    /\ sent = <<push_message(handlers[1].messages)>>

\* the chat's auth.txt holds the configured AUTH_TOKEN
Matching == auth.stored # NoneStr /\ truthy(auth.token) /\ auth.stored[1] = auth.token[1]

\* C20: with a global auth token configured, `review` dispatches no engine job
\* and `vs ai` does not set the engine-opponent mode unless the token stored
\* for the chat equals the global token; with no global token configured both
\* commands go ahead with no stored token: `vs ai` sets the mode, and `review`
\* is never refused for want of a token and dispatches its job when the chat
\* has a record and the function can be spawned.
C20_AuthGate ==
    [][/\ (op'.name = "review" /\ truthy(auth.token) /\ ~Matching) =>
             /\ jobs' = jobs
             /\ op'.outcome = "need_auth"
       /\ (op'.name = "vs_ai" /\ truthy(auth.token) /\ ~Matching) =>
             /\ session' = session
             /\ op'.outcome = "need_auth"
       /\ (op'.name = "review" /\ ~truthy(auth.token)) =>
             /\ op'.outcome \in {"no_sgf", "dispatched", "error"}
             /\ op'.outcome = "dispatched" <=>
                   Cardinality(ReviewJobs(jobs')) = Cardinality(ReviewJobs(jobs)) + 1
       /\ (op'.name = "vs_ai" /\ ~truthy(auth.token)) =>
             /\ is_vs_ai_mode(session')
             /\ op'.outcome = "done"]_vars

\* AUTH_TOKEN is configured, the chat holds another key, and `review` was just
\* refused: no job is out
C20_Witness ==
    /\ op.name = "review"
    /\ op.outcome = "need_auth"
    /\ auth.token = Str(Secret)
    /\ auth.stored = Str(Wrong)
    /\ jobs = {}

\* ------------------------------------------------ claims about the review
Numbers(moves) == [i \in DOMAIN moves |-> moves[i].move]

StartsWithName(text) ==
    /\ Len(text) > Len(bot_display_name) + 2
    /\ text[1] = "@"
    /\ \A i \in DOMAIN bot_display_name : lower(text[i + 1]) = lower(bot_display_name[i])
    /\ text[Len(bot_display_name) + 2] = " "
ListsBot(event) == \E k \in DOMAIN event.mentionees : event.mentionees[k].userId = bot_user_id
CarriesIsSelf(event) == \E k \in DOMAIN event.mentionees : event.mentionees[k].isSelf
Grouped == handlers # <<>> /\ handlers[1].event.type \in {"group", "room"}
ChatVarsChanged ==
    \/ session' # session
    \/ sgf_store' # sgf_store
    \/ jobs' # jobs
    \/ sent' # sent
    \/ op' # op

\* C28 as stated: a text message from a group or room goes on to the command
\* handlers if and only if its text starts with @<bot display name>, or its
\* mention payload lists the bot's user id or carries isSelf; otherwise nothing
\* stored changes and nothing is sent.
C28_AddressedOrIsSelf ==
    /\ [](Grouped /\ handlers[1].name_ok /\ handlers[1].id_ok =>
            (handlers[1].run <=>
                \/ StartsWithName(strip(handlers[1].event.text))
                \/ ListsBot(handlers[1].event)
                \/ CarriesIsSelf(handlers[1].event)))
    /\ [][(Grouped /\ handlers' = handlers /\ ChatVarsChanged) =>
             \/ StartsWithName(strip(handlers[1].event.text))
             \/ ListsBot(handlers[1].event)
             \/ CarriesIsSelf(handlers[1].event)]_vars

\* C28, what holds: a text message from a group or room goes on to the command
\* handlers if and only if its text starts with @<bot display name> or its
\* mention payload lists the bot's user id; otherwise nothing stored changes
\* and nothing is sent.
C28_Addressed ==
    /\ [](Grouped /\ handlers[1].name_ok /\ handlers[1].id_ok =>
            (handlers[1].run <=>
                \/ StartsWithName(strip(handlers[1].event.text))
                \/ ListsBot(handlers[1].event)))
    /\ [][(Grouped /\ handlers' = handlers /\ ChatVarsChanged) =>
             \/ StartsWithName(strip(handlers[1].event.text))
             \/ ListsBot(handlers[1].event)]_vars

\* in a group, "u @B" with the bot's user id in the mention payload was
\* handled as undo
C28_Witness ==
    /\ Grouped
    /\ handlers[1].event.type = "group"
    /\ handlers[1].event.text = <<"u", " ", "@", "B">>
    /\ ListsBot(handlers[1].event)
    /\ handlers[1].text = <<"u">>
    /\ op.name = "undo"

\* ------------------------------------------- claims about the review task
\* the review command ran in this step, in a chat that is authorised
ReviewRan ==
    /\ op'.name = "review"
    /\ review'.stage = "command"
    /\ authenticated(auth, review'.auth_read)

\* f is a record of the listing and no record of it was created later
MostRecent(f, files) ==
    /\ \E i \in DOMAIN files : files[i] = f /\ f.sgf
    /\ \A j \in DOMAIN files : files[j].sgf => files[j].time_created <= f.time_created

Dispatched == ReviewJobs(jobs') \ ReviewJobs(jobs)
DispatchedLatest(files) ==
    /\ Cardinality(Dispatched) = 1
    /\ ReviewJobs(jobs) \subseteq ReviewJobs(jobs')
    /\ \A j \in Dispatched :
          \E f \in Range(files) : MostRecent(f, files) /\ j.sgf_gcs_path = f.name

OneMessage(via, tag) ==
    /\ Len(sent') = 1
    /\ sent'[1].via = via
    /\ Len(sent'[1].messages) = 1
    /\ sent'[1].messages[1].tag = tag

NoRecordError(tok_ok) ==
    /\ jobs' = jobs
    /\ ~("spawn" \in Range(review'.calls))
    /\ OneMessage(IF tok_ok THEN "reply" ELSE "push", "no_sgf")

ErrorPush(why) == push_message(<<TextMessage("error", why, NoText)>>)

\* C22: when the body of the review callback reports that the engine failed,
\* the user is sent exactly one error message, no job is dispatched again,
\* and the callback calls neither the LLM nor the media synthesis and
\* delivers no result.
C22_EngineFailure ==
    [][(review'.stage = "callback" /\ review'.body.status = "failed") =>
          /\ sent' = <<ErrorPush("katago")>>
          /\ review'.calls = <<"send">>
          /\ ReviewJobs(jobs') \subseteq ReviewJobs(jobs)
          /\ ReviewJobs(jobs') # ReviewJobs(jobs)]_vars

\* the callback of a dispatched review reported the failure of the engine
C22_Witness ==
    /\ review.stage = "callback"
    /\ review.body.status = "failed"
    /\ review.body.task_id = 3
    /\ op.name = "callback_review"
    /\ Len(sent) = 1
    /\ sent[1].via = "push"

\* every message of the send_message calls of the last handler, in order
Messages == Flatten([i \in DOMAIN sent |-> sent[i].messages])
Tags == {Messages[i].tag : i \in DOMAIN Messages}
ResultTags == {"global_board", "winrate_chart", "carousel", "fallback"}
NothingDelivered ==
    /\ Tags \cap ResultTags = {}
    /\ \A i \in DOMAIN Messages : Messages[i].type = "text"
LlmFailed ==
    /\ review.stage = "callback"
    /\ review.body.status = "success"
    /\ review.env.llm = "raise"

\* C23: when the LLM call fails during post-processing, the delivery is
\* aborted (no overview, chart, carousel or fallback is sent) and the user
\* receives an error message.
C23_AbortWithError ==
    LlmFailed => NothingDelivered /\ "error" \in Tags

\* what holds of C23: after a failed LLM call nothing of the result is sent
C23_Abort ==
    LlmFailed => NothingDelivered /\ ~("draw" \in Range(review.calls))

\* the LLM call of a successful review raised
C23_Witness ==
    /\ LlmFailed
    /\ review.calls = <<"send", "llm">>
    /\ Tags = {"review_done"}

\* the callback went on to the media synthesis of a successful review
Synthesised ==
    /\ review.stage = "callback"
    /\ review.body.status = "success"
    /\ review.body.move_stats
    /\ review.body.json_gcs_path
    /\ review.env.llm = "ok"
KeySet == Range(review.top_moves)
MovesWhere(hows) == {m \in KeySet : review.env.media[m] \in hows}
\* the key moves sent as bubbles, and those sent as texts
Bubbles ==
    UNION {Range(Messages[i].moves) : i \in {k \in DOMAIN Messages : Messages[k].tag = "carousel"}}
Fallbacks ==
    UNION {Range(Messages[i].moves) : i \in {k \in DOMAIN Messages : Messages[k].tag = "fallback"}}
PicturesDelivered ==
    /\ review.env.global_board => "global_board" \in Tags
    /\ review.env.winrate_chart => "winrate_chart" \in Tags

\* C24 as stated: when the media synthesis fails for exactly one key move,
\* that move is delivered as a text fallback and the overview, the chart and
\* the bubbles of the other key moves are still delivered.
C24_DegradeFailedMove ==
    (Synthesised /\ Cardinality(MovesWhere({"raise"})) = 1
        /\ MovesWhere({"ok"}) = KeySet \ MovesWhere({"raise"})
        /\ review.env.carousel_error = 0) =>
       /\ Fallbacks = MovesWhere({"raise"})
       /\ Bubbles = MovesWhere({"ok"})
       /\ PicturesDelivered

\* what holds of C24: a key move whose GIF did not come back, whose URL is
\* invalid or whose bubble cannot be built is delivered as a text, and the
\* overview, the chart and the other bubbles are delivered, provided that no
\* synthesis and no carousel send raised
C24_DegradeMissingMove ==
    (Synthesised /\ MovesWhere({"raise"}) = {} /\ review.env.carousel_error = 0) =>
       /\ Fallbacks = MovesWhere(Degraded)
       /\ Bubbles = MovesWhere({"ok"})
       /\ PicturesDelivered

\* one key move of several had no GIF; the others went out as bubbles
C24_Witness ==
    /\ Synthesised
    /\ MovesWhere({"raise"}) = {}
    /\ Cardinality(MovesWhere(Degraded)) = 1
    /\ Cardinality(Bubbles) > MAX_BUBBLES_PER_CAROUSEL
    /\ Fallbacks = MovesWhere(Degraded)
    /\ review.env.carousel_error = 0

\* what a message of the delivery shows, and its place in the order of C25
Kind(msg) == IF msg.type = "image" THEN msg.url.kind ELSE msg.tag
Place(msg) ==
    CASE Kind(msg) = "review_done" -> 0
      [] Kind(msg) = "global_board" -> 1
      [] Kind(msg) = "winrate_chart" -> 2
      [] Kind(msg) = "carousel" -> 3
      [] Kind(msg) = "fallback" -> 4
      [] OTHER -> 5
Pos(m) == CHOOSE i \in DOMAIN review.top_moves : review.top_moves[i] = m
InKeyOrder(moves) ==
    \A i, j \in DOMAIN moves : i < j => Pos(moves[i]) < Pos(moves[j])
MovesOf(tag) ==
    Flatten([i \in DOMAIN Messages |->
                IF Messages[i].tag = tag THEN Messages[i].moves ELSE <<>>])
Delivered25 == Synthesised /\ MovesWhere({"raise"}) = {}

\* C25: a successful review is delivered in this order: the overview image,
\* the win-rate chart, every carousel (at most 10 bubbles each, the bubbles
\* in key-move order), then every per-move text fallback (in key-move order);
\* no fallback precedes the last carousel.
C25_DeliveryOrder ==
    Delivered25 =>
       /\ \A i, j \in DOMAIN Messages : i < j => Place(Messages[i]) <= Place(Messages[j])
       /\ \A i \in DOMAIN Messages : Place(Messages[i]) \in 0 .. 4
       /\ \A i \in DOMAIN Messages :
             Messages[i].tag = "carousel" =>
                Len(Messages[i].moves) \in 1 .. 10
       /\ InKeyOrder(MovesOf("carousel"))
       /\ InKeyOrder(MovesOf("fallback"))
       /\ Range(MovesOf("fallback")) = MovesWhere(Degraded)
       /\ Range(MovesOf("carousel")) \subseteq MovesWhere({"ok"})
       /\ review.env.carousel_error = 0 => Range(MovesOf("carousel")) = MovesWhere({"ok"})
       /\ PicturesDelivered

\* a delivery with both pictures, two carousels and two fallback texts
C25_Witness ==
    /\ Delivered25
    /\ {"global_board", "winrate_chart"} \subseteq Tags
    /\ Cardinality({i \in DOMAIN Messages : Messages[i].tag = "carousel"}) = 2
    /\ Cardinality({i \in DOMAIN Messages : Messages[i].tag = "fallback"}) = 2

\* ---------------------------------------- claims about the engine's move
\* the genmove callback of this step placed the stone of job
Placed(job) ==
    /\ op'.name = "callback"
    /\ op'.outcome = "placed"
    /\ op'.token = job.reply_token
    /\ job \notin jobs'
\* the records that this step created or changed
Written == {g \in DOMAIN sgf_store' : g \notin DOMAIN sgf_store \/ sgf_store'[g] # sgf_store[g]}
CurrentGame == Get(session, "game_id", NoGame)

\* C29: a successful genmove callback appends the engine's move only to the
\* record that was submitted to the engine (same game id, same moves); when
\* the chat's record was changed between dispatch and callback, the engine's
\* stone is not added to the changed record.
C29_OnlySubmittedRecord ==
    [][\A job \in jobs :
          Placed(job) =>
             \A g \in Written :
                /\ g = job.game_id
                /\ g \in DOMAIN sgf_store
                /\ sgf_store[g] = job.record]_vars

\* what holds of C29: a successful genmove callback appends one move of the
\* colour the job carried to the record the chat names when the callback
\* arrives, and writes no other record
C29_AppendsToCurrentRecord ==
    [][\A job \in jobs :
          Placed(job) =>
             /\ Written = {CurrentGame}
             /\ CurrentGame \in DOMAIN sgf_store
             /\ Len(sgf_store'[CurrentGame]) = Len(sgf_store[CurrentGame]) + 1
             /\ SubSeq(sgf_store'[CurrentGame], 1, Len(sgf_store[CurrentGame]))
                   = sgf_store[CurrentGame]
             /\ sgf_store'[CurrentGame][Len(sgf_store'[CurrentGame])].color
                   = color_code(job.current_turn)]_vars

\* the engine's stone was added to a game other than the submitted one
C29_Witness ==
    /\ op.name = "callback"
    /\ op.outcome = "placed"
    /\ Has(session, "game_id")
    /\ op.game_id # session["game_id"]
    /\ op.game_id \in DOMAIN sgf_store
    /\ sgf_store[session["game_id"]] # <<>>

\* the colour that is to move after a replay of the record
ToMove(record) == color_code(restore_game_from_sgf_object(record).current_turn)
\* this step appended one move to the record g, of the colour then to move
AppendedInTurn(g) ==
    /\ g \in DOMAIN sgf_store
    /\ Len(sgf_store'[g]) = Len(sgf_store[g]) + 1
    /\ SubSeq(sgf_store'[g], 1, Len(sgf_store[g])) = sgf_store[g]
    /\ sgf_store'[g][Len(sgf_store'[g])].color = ToMove(sgf_store[g])

\* C30: every move that a user move handler or the genmove callback appends
\* to a stored record has the colour that is to move according to a replay of
\* the moves before it, whatever the interleaving of commands and callbacks.
C30_ColourInTurn ==
    [][((op'.name = "move" /\ op'.outcome \in {"dispatched", "replied"})
         \/ (op'.name = "callback" /\ op'.outcome = "placed")) =>
          \A g \in Written : AppendedInTurn(g)]_vars

\* what holds of C30: the moves appended by the user move handler have the
\* colour to move
C30_UserColourInTurn ==
    [][(op'.name = "move" /\ op'.outcome \in {"dispatched", "replied"}) =>
          \A g \in Written : AppendedInTurn(g)]_vars

\* the engine's stone is the last move of the current record and has the
\* colour of the move before it
C30_Witness ==
    /\ op.name = "callback"
    /\ op.outcome = "placed"
    /\ Has(session, "game_id")
    /\ session["game_id"] \in DOMAIN sgf_store
    /\ \E record \in {sgf_store[session["game_id"]]} :
          /\ Len(record) >= 2
          /\ record[Len(record)].color = record[Len(record) - 1].color

\* ------------------------------------- claims about commands handled at once
\* handler i uploads its record in this step
Uploads(i) == handlers[i].pc = "upload" /\ handlers'[i].pc = "save_load"
\* the game whose record handler i replayed
LoadedFrom(h) == Get(h.state_meta, "game_id", NoGame)
LoadedRecord(h) == LoadedFrom(h) \in DOMAIN sgf_store
Kept(g) == g \in DOMAIN sgf_store /\ sgf_store'[g] = sgf_store[g]

\* C31: a move handler writes the record only under the game id from which
\* it loaded that record; whatever a reset or a load of the same chat does in
\* between, it leaves the record stored under any other game id unchanged.
C31_WritesLoadedGame ==
    [][\A i \in DOMAIN handlers :
          (Uploads(i) /\ LoadedRecord(handlers[i])) =>
             \A g \in DOMAIN sgf_store' : g # LoadedFrom(handlers[i]) => Kept(g)]_vars

\* what holds of C31: the handler writes one record, under the game id the
\* session named when save_game_sgf asked for it
C31_WritesSessionGame ==
    [][\A i \in DOMAIN handlers :
          Uploads(i) =>
             /\ handlers[i].game_id = Get(handlers[i].seen, "game_id", now)
             /\ \A g \in DOMAIN sgf_store' : g # handlers[i].game_id => Kept(g)]_vars

\* the coordinate was played on the game the chat held, and stored under the
\* game id of a reset that came in between
C31_Witness ==
    \E i \in DOMAIN handlers :
       /\ handlers[i].pc \in {"save_load", "save_state", "reply", "done"}
       /\ handlers[i].state.ok
       /\ LoadedFrom(handlers[i]) = GameA
       /\ handlers[i].game_id = new_game_id(now)
       /\ handlers[i].game_id \in DOMAIN sgf_store
       /\ Len(sgf_store[handlers[i].game_id]) = Len(sgf_store[GameA]) + 1

\* both handlers have finished, and the second one was the "vs ai"
VsAiDone == Quiet /\ handlers[2].coord_text = T("vs_ai", 0)

\* C32: when a "vs ai" and a coordinate of one chat are handled at once, then
\* in every interleaving, once both handlers have finished, the stored
\* session has vs_ai_mode = true.
C32_ModeKept ==
    VsAiDone => is_vs_ai_mode(session)

\* what holds of C32: the mode is set in the end unless the coordinate's
\* handler wrote back a session it had read before the mode was stored
C32_ModeKeptUnlessStaleWrite ==
    VsAiDone =>
       \/ is_vs_ai_mode(session)
       \/ /\ handlers[1].state.ok
          /\ \/ ~is_vs_ai_mode(handlers[1].existing_state)
             \/ ~is_vs_ai_mode(handlers[1].seen)

\* the coordinate was stored and the mode the "vs ai" had set is gone
C32_Witness ==
    /\ VsAiDone
    /\ handlers[1].state.ok
    /\ Has(session, "game_id")
    /\ ~is_vs_ai_mode(session)

\* C34: every handler that changes the board persists the record first and
\* the session afterwards: the session is never written to name a game id
\* before the record of that game id has been written.
C34_RecordBeforeSession ==
    Has(session, "game_id") => session["game_id"] \in DOMAIN sgf_store

\* what holds of C34: save_game_sgf writes the session after the record of
\* the game id it names
C34_SaveWritesRecordFirst ==
    [][\A i \in DOMAIN handlers :
          (handlers[i].pc = "save_state" /\ handlers'[i].pc = "reply") =>
             /\ session'["game_id"] = handlers[i].game_id
             /\ handlers[i].game_id \in DOMAIN sgf_store]_vars

\* a reset has stored the session of the new game, whose record is not there
C34_Witness ==
    /\ \E i \in DOMAIN handlers : handlers[i].pc = "reset_upload"
    /\ Has(session, "game_id")
    /\ session["game_id"] \notin DOMAIN sgf_store

\* ----------------------------------------- claims about a failed save
\* the last handler was a coordinate that was placed
MovePlaced == op.name = "move" /\ op.outcome # "rejected"
\* the record of the game holds the move just placed
MoveStored ==
    /\ op.game_id \in DOMAIN sgf_store
    /\ sgf_store[op.game_id] # op.before[1].sgf_game
    /\ SubSeq(sgf_store[op.game_id], 1, Len(op.before[1].sgf_game)) = op.before[1].sgf_game
ImageSent == \E i \in DOMAIN sent : \E k \in DOMAIN sent[i].messages :
                sent[i].messages[k].type = "image"
ErrorSent == \E i \in DOMAIN sent : \E k \in DOMAIN sent[i].messages :
                sent[i].messages[k].tag = "error"

\* C35: the image of a new stone is sent, and a genmove job dispatched, only
\* if the record that holds the move was persisted; when persisting fails
\* the user receives an error.
C35_SentOnlyIfSaved ==
    MovePlaced =>
        /\ (ImageSent \/ op.outcome = "dispatched") => MoveStored
        /\ op.write = "sgf_error" => ErrorSent

\* what holds of C35: a genmove job is dispatched only for a persisted record
C35_DispatchedOnlyIfSaved ==
    (MovePlaced /\ op.outcome = "dispatched") =>
        /\ MoveStored
        /\ \E j \in jobs : j.game_id = op.game_id /\ j.record = sgf_store[op.game_id]

\* a job was dispatched for a move whose record is stored
C35_Witness == MovePlaced /\ op.outcome = "dispatched" /\ MoveStored /\ op.write = "state_error"

\* the upload of the record failed, and the image of the stone was sent
C35_ImageOfLostMove == MovePlaced /\ op.write = "sgf_error" /\ ImageSent /\ ~MoveStored

\* ------------------------------------ claims about the turn of the session
\* the player to move that a replay of the record of the session's game gives
ReplayedTurn == restore_game_from_sgf_object(sgf_store[session["game_id"]]).current_turn
HasRecord == Has(session, "game_id") /\ session["game_id"] \in DOMAIN sgf_store

\* C36: after any sequence of commands and callbacks handled one after the
\* other, the current_turn of the session is the player to move that a
\* replay of the record under the session's game_id gives.
C36_TurnIsReplayedTurn ==
    HasRecord => Get(session, "current_turn", 1) = ReplayedTurn

\* the engine's move was placed in a game other than the one its job was
\* dispatched for, and the turn of the session is the replayed one
C36_Witness ==
    /\ op.name = "callback" /\ op.outcome = "placed"
    /\ HasRecord
    /\ op.game_id # session["game_id"]
    /\ session["current_turn"] = ReplayedTurn

\* ------------------------------------------------------ claims about ko
\* the board before the last move of the record
PreviousBoard ==
    restore_game_from_sgf_object(SubSeq(sgf_game, 1, Len(sgf_game) - 1)).board
\* the point of the last move of the record
LastPoint ==
    <<(Size - 1) - sgf_game[Len(sgf_game)].row, sgf_game[Len(sgf_game)].col>>
\* the player to move is refused on the ko-point
KoRefused ==
    /\ ko_point # None
    /\ place_stone(board, ko_point, TextOf(ko_point), current_turn).msg = "ko"
\* what the same placement gives when no ko-point is set
Retaken == place_stone(board, None, TextOf(ko_point), current_turn)

\* C37: place_stone refuses a placement as ko only when accepting it would
\* bring back the whole-board position that existed before the previous
\* accepted move.
C37_KoOnlyOnRepeat ==
    (Len(sgf_game) > 0 /\ KoRefused) => (Retaken.ok /\ Retaken.board = PreviousBoard)

\* what holds of C37: the refused placement would bring that position back
\* when the stone that took the ko is a group of its own and the only group
\* without liberty
C37_KoOnRepeatOfOneStone ==
    (/\ Len(sgf_game) > 0 /\ KoRefused
     /\ get_group_and_liberties(board, LastPoint).group = {LastPoint}
     /\ Dead(board, ko_point, current_turn) = {LastPoint})
        => (Retaken.ok /\ Retaken.board = PreviousBoard)

\* a ko of one stone: the refused placement would repeat the position
C37_Witness ==
    /\ Len(sgf_game) > 0 /\ KoRefused
    /\ get_group_and_liberties(board, LastPoint).group = {LastPoint}
    /\ Retaken.board = PreviousBoard

\* two stones took one and are left with one liberty: taking them back is
\* refused as ko, and would not repeat the position
C37_GroupKo ==
    /\ Len(sgf_game) > 0 /\ KoRefused
    /\ Cardinality(get_group_and_liberties(board, LastPoint).group) = 2
    /\ Retaken.ok /\ Retaken.board # PreviousBoard

\* --------------------------------------------- claims about coordinates
\* C38: for every point of the 19x19 board, the coordinate as it is typed
\* (letters A-T without I, rows 1-19 from the bottom) becomes a board cell
\* and a record coordinate such that the replay puts the stone on the same
\* cell and the genmove client writes the same typed coordinate in its play
\* command.
C38_SameCellSameText ==
    review.stage = "played" =>
        /\ review.coords \in (0 .. board_size - 1) \X (0 .. board_size - 1)
        /\ review.coords[1] = board_size - review.text.num
        /\ col_labels[review.coords[2] + 1] = review.text.col
        /\ review.move \in (0 .. board_size - 1) \X (0 .. board_size - 1)
        /\ review.restored = review.coords
        /\ review.play = review.text

\* the last column and the top row went through: T19
C38_Witness ==
    /\ review.stage = "played"
    /\ review.text = T("T", board_size)
    /\ review.coords = <<0, board_size - 1>>
    /\ review.play = T("T", board_size)

\* ---------------------------------------------- claims about win rates
\* the engine gave the position between the two plies one win rate: as
\* nextRootInfo of the first block and as rootInfo of the second
SharedRate ==
    /\ review.stage = "stats"
    /\ review.blocks[1].nextRootInfo = <<review.blocks[2].winrate>>

\* C39: for two consecutive plies for which the engine reports the same win
\* rate of the position between them, the winrate_after of the first is the
\* winrate_before of the second, both percentages from black's side.
C39_AfterIsNextBefore ==
    SharedRate => review.stats[1].winrate_after = <<review.stats[2].winrate_before>>

\* what holds of C39: the two agree when the same player is to move in both
\* blocks, and add up to 100 when the players alternate
C39_AfterMirrorsNextBefore ==
    SharedRate =>
        IF review.blocks[1].currentPlayer = review.blocks[2].currentPlayer
        THEN review.stats[1].winrate_after = <<review.stats[2].winrate_before>>
        ELSE review.stats[1].winrate_after = <<1000 - review.stats[2].winrate_before>>

\* black moved, white is to move, the engine gives the position 30.04%: the
\* move has 30.0 after it, the next move 70.0 before it
C39_Witness ==
    /\ SharedRate
    /\ review.blocks[1].currentPlayer = "B" /\ review.blocks[2].currentPlayer = "W"
    /\ review.blocks[2].winrate = 3004
    /\ review.stats[1].winrate_after = <<300>>
    /\ review.stats[2].winrate_before = 700

\* --------------------------------------- claims about the genmove client
\* the text of the last = response with a text in the output, <<>> if none
LastMoveText ==
    LET texts == {i \in DOMAIN review.lines :
                     review.lines[i].mark = "=" /\ review.lines[i].text # ""}
    IN  IF texts = {} THEN <<>>
        ELSE <<review.lines[CHOOSE i \in texts : \A j \in texts : j <= i].text>>
NoMove == review.answer.mark = "?" \/ review.answer.text \in {"pass", "PASS", "resign", "Resign"}

\* C40: from the output of the engine for boardsize, clear_board, one play
\* per move, genmove and quit, the genmove client returns the last non-empty
\* = response before quit; when that response is pass or resign, or genmove
\* was answered with ?, it returns a failure and no move.
C40_LastAnswerOrFailure ==
    review.stage = "read" =>
        /\ review.result.success => review.result.move = LastMoveText
        /\ NoMove => (~review.result.success /\ review.result.move = <<>>)
        /\ (~NoMove /\ review.return_code = 0) =>
              (review.result.success /\ review.result.move = <<review.answer.text>>)

\* the engine resigned after a play command it had refused: a failure
C40_Witness ==
    /\ review.stage = "read"
    /\ review.answer = Line("=", "resign", FALSE)
    /\ \E i \in DOMAIN review.lines : review.lines[i].mark = "?"
    /\ review.return_code = 0
    /\ ~review.result.success /\ review.result.move = <<>>

\* ------------------------------------------ claims about the callbacks
\* the callbacks of one job, in the order the server received them
FailedAfterSuccess(posted) ==
    \E a, b \in DOMAIN posted : a < b /\ posted[a] = "success" /\ posted[b] = "failed"

\* C33: for each job (review or genmove) the worker posts at most one
\* terminal callback: no failed callback follows the success callback of
\* the job.
C33_OneTerminalCallback ==
    \A i \in DOMAIN handlers : ~FailedAfterSuccess(handlers[i].posted)

\* what holds of C33: at most two callbacks per job, a success callback only
\* as the first, and a second callback only from a worker that returns failed
C33_SuccessOnlyFirst ==
    \A i \in DOMAIN handlers :
        /\ Len(handlers[i].posted) <= 2
        /\ \A k \in DOMAIN handlers[i].posted :
              handlers[i].posted[k] = "success" => k = 1
        /\ Len(handlers[i].posted) = 2 =>
              (handlers[i].pc = "returned" /\ handlers[i].returns = "failed")

\* the genmove worker has returned; the server received its success callback
\* and then its failed callback
C33_Witness ==
    \E i \in DOMAIN handlers :
        /\ handlers[i].kind = "genmove"
        /\ handlers[i].pc = "returned"
        /\ handlers[i].posted = <<"success", "failed">>

====
